---- MODULE Spec2Model ----
(***************************************************************************)
(* Model of the genetic-algorithm furniture layout generator               *)
(* (src/streamlit/utils/layout_generator.py, class LayoutGenerator).       *)
(*                                                                         *)
(* Numbers.  Lengths and positions are reals (feet) in the source; here     *)
(* they are integers counting tenths of a foot, so 0.1 is 1, 0.5 is 5 and   *)
(* a 12.0 x 10.0 room is 120 x 100.  Catalogue dimensions are inches, as in *)
(* the furniture database.  Scores are whole numbers in the source          *)
(* (100.0, 30, 25, 5, 10) and are integers here.                            *)
(*                                                                         *)
(* Randomness.  The source draws from numpy's global generator, which is a  *)
(* deterministic state machine behind np.random.  The model keeps that      *)
(* generator state in the variable rng: every draw reads the state and      *)
(* advances it.  Which run happens is decided by the seed chosen in Init.   *)
(***************************************************************************)
EXTENDS Integers, Sequences, FiniteSets, TLC

VARIABLES
    pc,                 \* position inside generate_complete_layout
    selected_furniture, \* argument: the selection, in insertion order
    room_length,        \* argument
    room_width,         \* argument
    pop_size,           \* argument
    generations,        \* argument
    rng,                \* state of the global random generator
    furniture_list,     \* prepare_furniture_for_layout's result
    population,         \* generate_layouts_with_furniture: population
    gen,                \* number of completed iterations of the generation loop
    sorted_pop,         \* sorted_pop of the running generation
    next_generation,    \* next_generation of the running generation
    final_fitness,      \* final_fitness (line 303)
    ga_return,          \* the values generate_layouts_with_furniture returned
    result,             \* the dictionary generate_complete_layout returned
    error,              \* the exception that left the call, or "none"
    fn_args,            \* arguments of a single function application
    fn_out,             \* what that application returned
    heap,               \* the furniture dictionaries, by object identity
    refs,               \* the layouts as lists of references into the heap
    ai,                 \* get_ai_placement_instructions: its locals and its log
    rp,                 \* process_uploaded_room: its locals and its result
    session             \* app.py: st.session_state of one browser session

vars == << pc, selected_furniture, room_length, room_width, pop_size,
           generations, rng, furniture_list, population, gen, sorted_pop,
           next_generation, final_fitness, ga_return, result, error,
           fn_args, fn_out, heap, refs, ai, rp, session >>

ga_vars == << pc, selected_furniture, room_length, room_width, pop_size,
              generations, rng, furniture_list, population, gen, sorted_pop,
              next_generation, final_fitness, ga_return, result, error,
              heap, refs, ai, rp, session >>

-----------------------------------------------------------------------------
(* Bounds of the model. *)

MaxPop == 4
MaxGen == 2
MaxSeed == 30

\* Single applications: coordinates 5 * k for k up to MaxStep, layouts of up to
\* MaxPieces pieces, generator states up to MaxState.
MaxStep == 5
MaxPieces == 3
MaxState == 400

\* Generator states tried in single applications of crossover and mutation.
MaxDraws == 40

\* Seeds tried in the end-to-end scenarios.
MaxScenarioSeed == 3

\* Largest max_retries given to get_ai_placement_instructions (its default is 3).
MaxRetries == 3

\* Largest max_iterations given to process_uploaded_room (its default is 3).
MaxIterations == 4

-----------------------------------------------------------------------------
(* Small helpers. *)

Max(a, b) == IF a >= b THEN a ELSE b

Min(a, b) == IF a <= b THEN a ELSE b

\* Python's seq[:n] for n >= 0.
Take(seq, n) == SubSeq(seq, 1, Min(n, Len(seq)))

RECURSIVE SumSeq(_)
SumSeq(s) == IF s = << >> THEN 0 ELSE Head(s) + SumSeq(Tail(s))

\* floor(sqrt(n)) for n >= 0, by bisection on [lo, hi].
RECURSIVE SqrtBisect(_, _, _)
SqrtBisect(n, lo, hi) ==
    IF lo >= hi THEN lo
    ELSE LET mid == (lo + hi + 1) \div 2
         IN  IF mid * mid <= n THEN SqrtBisect(n, mid, hi)
                               ELSE SqrtBisect(n, lo, mid - 1)

\* np.sqrt, to a hundredth: floor(10 * sqrt(n)).
Sqrt10(n) == SqrtBisect(100 * n, 0, 46000)

-----------------------------------------------------------------------------
(* furniture_overlap and evaluate_layout. *)

\* Mutant: the comparisons are strict, so pieces exactly `spacing` apart
\* count as overlapping.
furniture_overlap_strict(f1, f2, spacing) ==
    ~ ( \/ f1.x + f1.length + spacing < f2.x
        \/ f2.x + f2.length + spacing < f1.x
        \/ f1.y + f1.width + spacing < f2.y
        \/ f2.y + f2.width + spacing < f1.y )

\* Mutant: the test "f2 lies left of f1" is missing.
furniture_overlap_onesided(f1, f2, spacing) ==
    ~ ( \/ f1.x + f1.length + spacing <= f2.x
        \/ f1.y + f1.width + spacing <= f2.y
        \/ f2.y + f2.width + spacing <= f1.y )

furniture_overlap(f1, f2, spacing) ==
    ~ ( \/ f1.x + f1.length + spacing <= f2.x
        \/ f2.x + f2.length + spacing <= f1.x
        \/ f1.y + f1.width + spacing <= f2.y
        \/ f2.y + f2.width + spacing <= f1.y )

\* The default value of furniture_overlap's spacing parameter, 0.5.
DefaultSpacing == 5

\* Number of pairs i < j of the layout that overlap (lines 153-156).
OverlapPairs(layout) ==
    Cardinality({ p \in (1..Len(layout)) \X (1..Len(layout)) :
                    /\ p[1] < p[2]
                    /\ furniture_overlap(layout[p[1]], layout[p[2]], DefaultSpacing) })

\* Mutant: a piece turned by 90 or 270 degrees occupies width x length.
OutOfBounds_rotated(furniture, rl, rw) ==
    LET turned == furniture.rotation \in { 90, 270 }
        across == IF turned THEN furniture.width ELSE furniture.length
        along  == IF turned THEN furniture.length ELSE furniture.width
    IN  \/ furniture.x < 0
        \/ furniture.y < 0
        \/ furniture.x + across > rl
        \/ furniture.y + along > rw

\* The out-of-bounds test of lines 160-162.
OutOfBounds(furniture, rl, rw) ==
    \/ furniture.x < 0
    \/ furniture.y < 0
    \/ furniture.x + furniture.length > rl
    \/ furniture.y + furniture.width > rw

\* The wall bonus one piece earns (lines 168-171).
WallBonusOf(furniture, rl, rw) ==
      (IF furniture.x <= 5 \/ furniture.x + furniture.length >= rl - 5 THEN 5 ELSE 0)
    + (IF furniture.y <= 5 \/ furniture.y + furniture.width >= rw - 5 THEN 5 ELSE 0)

\* Twice the distance of a piece's centre to the room's centre, in hundredths
\* (lines 181-183): the centre is x + length / 2, so doubling keeps integers.
CentreDist(furniture, rl, rw) ==
    LET dx == 2 * furniture.x + furniture.length - rl
        dy == 2 * furniture.y + furniture.width - rw
    IN  Sqrt10(dx * dx + dy * dy)

\* Mutant: the centre bonus is 10 for every piece instead of 10 once.
CentreBonus_scaled(layout, rl, rw) ==
    LET n == Len(layout)
        D == SumSeq([i \in 1..n |-> CentreDist(layout[i], rl, rw)])
    IN  IF n > 0 /\ 4 * rl * n < D /\ D < 8 * rl * n THEN 10 * n ELSE 0

\* room_length * 0.2 < np.mean(distances) < room_length * 0.4 (lines 186-188).
\* With D the sum of the doubled distances in hundredths and n pieces:
\*   0.2 * rl < D / (20 n) < 0.4 * rl.
CentreBonus(layout, rl, rw) ==
    LET n == Len(layout)
        D == SumSeq([i \in 1..n |-> CentreDist(layout[i], rl, rw)])
    IN  IF n > 0 /\ 4 * rl * n < D /\ D < 8 * rl * n THEN 10 ELSE 0

\* Mutant: an overlapping pair costs 20 instead of 30.
RawScore_cheap_overlap(layout, room_dims) ==
    LET rl == room_dims.length
        rw == room_dims.width
        n  == Len(layout)
    IN  100
        - 20 * OverlapPairs(layout)
        - 25 * Cardinality({ i \in 1..n : OutOfBounds(layout[i], rl, rw) })
        + SumSeq([i \in 1..n |-> WallBonusOf(layout[i], rl, rw)])
        + CentreBonus(layout, rl, rw)

\* The score before the final max(0, score).
RawScore(layout, room_dims) ==
    LET rl == room_dims.length
        rw == room_dims.width
        n  == Len(layout)
    IN  100
        - 30 * OverlapPairs(layout)
        - 25 * Cardinality({ i \in 1..n : OutOfBounds(layout[i], rl, rw) })
        + SumSeq([i \in 1..n |-> WallBonusOf(layout[i], rl, rw)])
        + CentreBonus(layout, rl, rw)

\* Mutant: the final max(0, score) is missing.
evaluate_layout_unclamped(layout, room_dims) == RawScore(layout, room_dims)

evaluate_layout(layout, room_dims) == Max(0, RawScore(layout, room_dims))

-----------------------------------------------------------------------------
(* The random source: np.random's global generator. *)

\* One step of the generator state (a Lehmer generator modulo the prime 8191).
RngNext(r) == (r * 17) % 8191

\* np.random.seed: the state after seeding.
RngSeed(seed) == RngNext(RngNext(((seed * 2477) % 8190) + 1))

\* np.random.random() < p, with p in tenths: the draw is one of 0.0 .. 0.9.
random_below(r, p) == (r % 10) < p

\* np.random.uniform(0, high): a point of the grid 0 .. high.
uniform(r, high) == r % (high + 1)

\* np.random.choice([0, 90, 180, 270]).
choice_rotation(r) == << 0, 90, 180, 270 >>[(r % 4) + 1]

\* np.random.normal(0, 0.5): a perturbation within about two deviations.
normal(r) == << -12, -5, -1, 0, 1, 5, 12 >>[(r % 7) + 1]

\* np.random.choice(n, 2, replace=False) for n >= 2: two distinct indices
\* (1-based), in the order drawn.
choice_two(r, n) ==
    LET i == r % n
        j == (i + 1 + ((r \div n) % (n - 1))) % n
    IN  << i + 1, j + 1 >>

\* Mutant: only the upper bound is applied.
clip_upper_only(v, lo, hi) == Min(v, hi)

\* np.clip(v, lo, hi).
clip(v, lo, hi) == Min(Max(v, lo), hi)

-----------------------------------------------------------------------------
(* prepare_furniture_for_layout. *)

\* category_mapping.get(category.lower(), category.lower()); the categories of
\* the model are lower-case already.
category_mapping(category) ==
    CASE category = "beds"   -> "bed"
      [] category = "chairs" -> "chair"
      [] category = "sofas"  -> "sofa"
      [] category = "tables" -> "table"
      [] OTHER               -> category

\* length_inches / 12.0, in tenths of a foot.
InchesToFeet(inches) == (inches * 10) \div 12

\* Lines 56-62: the item is item_data['item'] when the entry is wrapped,
\* item_data itself otherwise.
item_of(item_data) ==
    IF "item" \in DOMAIN item_data THEN item_data.item ELSE item_data

\* item.get('length', 36) and item.get('width', 24) (lines 70-71).
length_inches_of(item) == IF "length" \in DOMAIN item THEN item.length ELSE 36

width_inches_of(item) == IF "width" \in DOMAIN item THEN item.width ELSE 24

\* One entry of the selection becomes one furniture piece (lines 67-85).
\* db_item is a reference to the catalogue item: its position in the selection.
furniture_piece(entry, ref) ==
    LET item == item_of(entry.item_data)
    IN  [ name          |-> category_mapping(entry.category),
          length        |-> InchesToFeet(length_inches_of(item)),
          width         |-> InchesToFeet(width_inches_of(item)),
          length_inches |-> length_inches_of(item),
          width_inches  |-> width_inches_of(item),
          db_item       |-> ref ]

\* The loop of lines 54-85 over the first k entries; entries that are not
\* dictionaries are skipped.
RECURSIVE PrepareUpTo(_, _)
PrepareUpTo(matched_furniture, k) ==
    IF k = 0 THEN << >>
    ELSE LET before == PrepareUpTo(matched_furniture, k - 1)
             entry  == matched_furniture[k]
         IN  IF entry.is_dict
             THEN Append(before, furniture_piece(entry, k))
             ELSE before

prepare_furniture_for_layout(matched_furniture) ==
    PrepareUpTo(matched_furniture, Len(matched_furniture))

-----------------------------------------------------------------------------
(* generate_layout_with_custom_furniture, crossover_layouts, mutate_layout.   *)
(* Each takes the generator state r and returns its value with the state      *)
(* after its draws: [layout |-> ..., rng |-> ...].                            *)

\* max(0.1, room_dim - piece_dim) (lines 104-105 and 230-231).
\* Mutant: the floor of the range is one foot instead of 0.1.
MaxPosition_wide_floor(room_dim, piece_dim) == Max(10, room_dim - piece_dim)

MaxPosition(room_dim, piece_dim) == Max(1, room_dim - piece_dim)

\* Mutant: the piece's own size is not subtracted from the room's.
random_piece_room_wide(furniture, rl, rw, r) ==
    LET r1 == RngNext(r)
        r2 == RngNext(r1)
        r3 == RngNext(r2)
    IN  [ piece |-> [ name     |-> furniture.name,
                      x        |-> uniform(r1, Max(1, rl)),
                      y        |-> uniform(r2, Max(1, rw)),
                      length   |-> furniture.length,
                      width    |-> furniture.width,
                      rotation |-> choice_rotation(r3),
                      db_item  |-> furniture.db_item ],
          rng   |-> r3 ]

\* The piece of lines 107-115: three draws, x then y then rotation.
random_piece(furniture, rl, rw, r) ==
    LET r1 == RngNext(r)
        r2 == RngNext(r1)
        r3 == RngNext(r2)
    IN  [ piece |-> [ name     |-> furniture.name,
                      x        |-> uniform(r1, MaxPosition(rl, furniture.length)),
                      y        |-> uniform(r2, MaxPosition(rw, furniture.width)),
                      length   |-> furniture.length,
                      width    |-> furniture.width,
                      rotation |-> choice_rotation(r3),
                      db_item  |-> furniture.db_item ],
          rng   |-> r3 ]

RECURSIVE PlaceUpTo(_, _, _, _, _)
PlaceUpTo(fl, rl, rw, r, k) ==
    IF k = 0 THEN [ layout |-> << >>, rng |-> r ]
    ELSE LET before == PlaceUpTo(fl, rl, rw, r, k - 1)
             placed == random_piece(fl[k], rl, rw, before.rng)
         IN  [ layout |-> Append(before.layout, placed.piece), rng |-> placed.rng ]

generate_layout_with_custom_furniture(fl, rl, rw, r) ==
    PlaceUpTo(fl, rl, rw, r, Len(fl))

\* Mutant: the second parent is read from its far end.
crossover_pick_mirrored(parent1, parent2, i, r) ==
    IF random_below(r, 5) THEN parent1[i] ELSE parent2[Len(parent2) + 1 - i]

\* Position i of the child: a copy of parent1[i] or of parent2[i] (lines 206-209).
crossover_pick(parent1, parent2, i, r) ==
    IF random_below(r, 5) THEN parent1[i] ELSE parent2[i]

RECURSIVE CrossUpTo(_, _, _, _)
CrossUpTo(parent1, parent2, r, k) ==
    IF k = 0 THEN [ layout |-> << >>, rng |-> r ]
    ELSE LET before == CrossUpTo(parent1, parent2, r, k - 1)
             r1     == RngNext(before.rng)
         IN  [ layout |-> Append(before.layout, crossover_pick(parent1, parent2, k, r1)),
               rng    |-> r1 ]

crossover_layouts(parent1, parent2, r) ==
    CrossUpTo(parent1, parent2, r, Len(parent1))

\* The default value of mutate_layout's mutation_rate parameter, 0.3.
DefaultMutationRate == 3

\* Mutant: a selected piece is also turned by a quarter, its extents swapped.
mutate_piece_turned(furniture, rl, rw, mutation_rate, r) ==
    LET r1 == RngNext(r)
        r2 == RngNext(r1)
        r3 == RngNext(r2)
    IN  IF random_below(r1, mutation_rate)
        THEN [ piece |-> [ furniture EXCEPT
                             !.x = clip(furniture.x + normal(r2), 0,
                                        MaxPosition(rl, furniture.length)),
                             !.y = clip(furniture.y + normal(r3), 0,
                                        MaxPosition(rw, furniture.width)),
                             !.rotation = (furniture.rotation + 90) % 360,
                             !.length = furniture.width,
                             !.width = furniture.length ],
               rng   |-> r3 ]
        ELSE [ piece |-> furniture, rng |-> r1 ]

\* Mutant: the position is clamped whether or not the piece was selected.
mutate_piece_always_clamped(furniture, rl, rw, mutation_rate, r) ==
    LET r1 == RngNext(r)
        r2 == RngNext(r1)
        r3 == RngNext(r2)
        selected == random_below(r1, mutation_rate)
    IN  [ piece |-> [ furniture EXCEPT
                        !.x = clip(furniture.x + (IF selected THEN normal(r2) ELSE 0),
                                   0, MaxPosition(rl, furniture.length)),
                        !.y = clip(furniture.y + (IF selected THEN normal(r3) ELSE 0),
                                   0, MaxPosition(rw, furniture.width)) ],
          rng   |-> IF selected THEN r3 ELSE r1 ]

\* One piece through lines 227-242: one draw decides, two more perturb.
mutate_piece(furniture, rl, rw, mutation_rate, r) ==
    LET r1 == RngNext(r)
        r2 == RngNext(r1)
        r3 == RngNext(r2)
    IN  IF random_below(r1, mutation_rate)
        THEN [ piece |-> [ furniture EXCEPT
                             !.x = clip(furniture.x + normal(r2), 0,
                                        MaxPosition(rl, furniture.length)),
                             !.y = clip(furniture.y + normal(r3), 0,
                                        MaxPosition(rw, furniture.width)) ],
               rng   |-> r3 ]
        ELSE [ piece |-> furniture, rng |-> r1 ]

RECURSIVE MutateUpTo(_, _, _, _, _, _)
MutateUpTo(layout, rl, rw, mutation_rate, r, k) ==
    IF k = 0 THEN [ layout |-> << >>, rng |-> r ]
    ELSE LET before  == MutateUpTo(layout, rl, rw, mutation_rate, r, k - 1)
             mutated == mutate_piece(layout[k], rl, rw, mutation_rate, before.rng)
         IN  [ layout |-> Append(before.layout, mutated.piece), rng |-> mutated.rng ]

mutate_layout(layout, rl, rw, mutation_rate, r) ==
    MutateUpTo(layout, rl, rw, mutation_rate, r, Len(layout))

-----------------------------------------------------------------------------
(* generate_layouts_with_furniture: the pieces of its body. *)

room_dims_of(rl, rw) == [ length |-> rl, width |-> rw ]

\* [evaluate_layout(layout, room_dims) for layout in population]
\* (lines 270-273 and 303-306).
fitness_of(pop, rl, rw) ==
    [ i \in 1..Len(pop) |-> evaluate_layout(pop[i], room_dims_of(rl, rw)) ]

\* Where sorted(..., reverse=True) puts an item of the given score: behind
\* every item whose score is at least as high (the sort is stable).
RECURSIVE InsertByScore(_, _)
InsertByScore(pairs, pair) ==
    IF pairs = << >> THEN << pair >>
    ELSE IF Head(pairs)[1] >= pair[1]
         THEN << Head(pairs) >> \o InsertByScore(Tail(pairs), pair)
         ELSE << pair >> \o pairs

RECURSIVE SortedUpTo(_, _, _)
SortedUpTo(scores, pop, k) ==
    IF k = 0 THEN << >>
    ELSE InsertByScore(SortedUpTo(scores, pop, k - 1), << scores[k], pop[k] >>)

\* Mutant: reverse=True is missing, the order is ascending.
sort_by_fitness_ascending(scores, pop) ==
    LET pairs == SortedUpTo(scores, pop, Len(pop))
    IN  [ i \in 1..Len(pairs) |-> pairs[Len(pairs) + 1 - i][2] ]

\* [layout for _, layout in sorted(zip(scores, pop), key=lambda x: x[0],
\*  reverse=True)] (lines 276-278 and 307-309).
sort_by_fitness(scores, pop) ==
    LET pairs == SortedUpTo(scores, pop, Len(pop))
    IN  [ i \in 1..Len(pairs) |-> pairs[i][2] ]

\* elite_count = max(1, pop_size // 5) (line 281).
\* Mutant: no floor of one elite for small populations.
elite_count_nofloor(ps) == ps \div 5

elite_count(ps) == Max(1, ps \div 5)

\* parent_pool = sorted_pop[:pop_size//2] (line 288).
parent_pool(sp, ps) == Take(sp, ps \div 2)

-----------------------------------------------------------------------------
(* The inputs of the model. *)

Bed == [ length |-> 78, width |-> 60 ]

Chair == [ length |-> 30, width |-> 30 ]

Sofa == [ length |-> 96, width |-> 36 ]

Table == [ length |-> 48 ]

Slab == [ length |-> 0, width |-> 24 ]

Direct(category, item) ==
    [ category |-> category, is_dict |-> TRUE, item_data |-> item ]

Wrapped(category, item) ==
    [ category |-> category, is_dict |-> TRUE, item_data |-> [ item |-> item ] ]

NotADict(category) ==
    [ category |-> category, is_dict |-> FALSE, item_data |-> [ text |-> "none" ] ]

Selections ==
    { << >>,
      << NotADict("beds") >>,
      << Direct("sofas", Sofa) >>,
      << Wrapped("beds", Bed), Direct("chairs", Chair) >>,
      << Direct("tables", Table), NotADict("lamps"), Direct("rugs", Slab) >> }

Rooms == { << 120, 100 >>, << 30, 30 >>, << 0, 30 >> }

NoResult == [ success |-> FALSE, error |-> "not returned" ]

NoCall == [ op |-> "none" ]

\* process_uploaded_room has not been called.
NoRoom == [ pc |-> "idle" ]

\* No browser session is open.
NoSession == [ script |-> "not running" ]

\* get_ai_placement_instructions has not been called.
NoAI == [ pc |-> "idle" ]

\* No layout is held by reference.
NoRefs == [ population |-> << >>, sorted_pop |-> << >>, next_generation |-> << >>,
            child |-> << >>, best |-> << >> ]

-----------------------------------------------------------------------------
(* generate_complete_layout, step by step. *)

\* The end-to-end scenarios: a bed and a chair in a 12.0 x 10.0 room with
\* pop_size 20 and generations 20; a sofa longer than a 3.0 x 3.0 room with the
\* default pop_size 50 and generations 50 (line 247).
Scenarios ==
    { [ selected_furniture |-> << Wrapped("beds", Bed), Direct("chairs", Chair) >>,
        room_length |-> 120, room_width |-> 100, pop_size |-> 20, generations |-> 20 ],
      [ selected_furniture |-> << Direct("sofas", Sofa) >>,
        room_length |-> 30, room_width |-> 30, pop_size |-> 50, generations |-> 50 ] }

\* The generator states a scenario starts from: a seeded state, or the state 0,
\* from which every draw returns the low end of its range.
ScenarioRuns == { 0 } \cup { RngSeed(seed) : seed \in 1..MaxScenarioSeed }

Init ==
    /\ pc = "call"
    /\ \/ /\ selected_furniture \in Selections
          /\ \E room \in Rooms : room_length = room[1] /\ room_width = room[2]
          /\ pop_size \in 0..MaxPop
          /\ generations \in 0..MaxGen
          /\ \E seed \in 1..MaxSeed : rng = RngSeed(seed)
       \/ /\ \E s \in Scenarios :
                /\ selected_furniture = s.selected_furniture
                /\ room_length = s.room_length
                /\ room_width = s.room_width
                /\ pop_size = s.pop_size
                /\ generations = s.generations
          /\ rng \in ScenarioRuns
    /\ furniture_list = << >>
    /\ population = << >>
    /\ gen = 0
    /\ sorted_pop = << >>
    /\ next_generation = << >>
    /\ final_fitness = << >>
    /\ ga_return = << >>
    /\ result = NoResult
    /\ error = "none"
    /\ fn_args = NoCall
    /\ fn_out = NoCall
    /\ heap = << >>
    /\ refs = NoRefs
    /\ ai = NoAI
    /\ rp = NoRoom
    /\ session = NoSession

\* Mutant: the test for an empty furniture list is missing.
NothingToPlace_unchecked(fl) == FALSE

\* `if not furniture_list` (line 549).
NothingToPlace(fl) == fl = << >>

\* Lines 547-553: prepare the furniture; with nothing to place, return at once.
Prepare ==
    /\ pc = "call"
    /\ furniture_list' = prepare_furniture_for_layout(selected_furniture)
    /\ IF NothingToPlace(furniture_list')
       THEN /\ pc' = "returned"
            /\ result' = [ success |-> FALSE, error |-> "No furniture to place" ]
       ELSE /\ pc' = "init"
            /\ result' = result
    /\ UNCHANGED << selected_furniture, room_length, room_width, pop_size,
                    generations, rng, population, gen, sorted_pop,
                    next_generation, final_fitness, ga_return, error,
                    fn_args, fn_out, heap, refs, ai, rp, session >>

\* One iteration of `for _ in range(pop_size)` (lines 263-265).
InitPopulation ==
    /\ pc = "init"
    /\ Len(population) < pop_size
    /\ LET placed == generate_layout_with_custom_furniture(
                         furniture_list, room_length, room_width, rng)
       IN  /\ population' = Append(population, placed.layout)
           /\ rng' = placed.rng
    /\ UNCHANGED << pc, selected_furniture, room_length, room_width, pop_size,
                    generations, furniture_list, gen, sorted_pop,
                    next_generation, final_fitness, ga_return, result, error,
                    fn_args, fn_out, heap, refs, ai, rp, session >>

\* The loop of lines 263-265 is over.
PopulationReady ==
    /\ pc = "init"
    /\ Len(population) >= pop_size
    /\ pc' = "loop"
    /\ UNCHANGED << selected_furniture, room_length, room_width, pop_size,
                    generations, rng, furniture_list, population, gen,
                    sorted_pop, next_generation, final_fitness, ga_return,
                    result, error, fn_args, fn_out, heap, refs, ai, rp, session >>

\* The head of one generation (lines 268-282): evaluate, sort, keep the elite.
StartGeneration ==
    /\ pc = "loop"
    /\ gen < generations
    /\ sorted_pop' = sort_by_fitness(
                         fitness_of(population, room_length, room_width), population)
    /\ next_generation' = Take(sorted_pop', elite_count(pop_size))
    /\ pc' = "repro"
    /\ UNCHANGED << selected_furniture, room_length, room_width, pop_size,
                    generations, rng, furniture_list, population, gen,
                    final_fitness, ga_return, result, error, fn_args, fn_out, heap, refs, ai, rp, session >>

\* Mutant: the loop runs while the next generation is not larger than pop_size.
NeedsMore_inclusive(ng, ps) == Len(ng) <= ps

\* `while len(next_generation) < pop_size` (line 285).
NeedsMore(ng, ps) == Len(ng) < ps

\* One iteration of the while loop, crossover branch (lines 286-291, 297-298).
ReproduceCrossover ==
    /\ pc = "repro"
    /\ NeedsMore(next_generation, pop_size)
    /\ LET r1   == RngNext(rng)
           pool == parent_pool(sorted_pop, pop_size)
       IN  /\ random_below(r1, 7)
           /\ Len(pool) >= 2
           /\ LET r2      == RngNext(r1)
                  idx     == choice_two(r2, Len(pool))
                  child   == crossover_layouts(pool[idx[1]], pool[idx[2]], r2)
                  mutated == mutate_layout(child.layout, room_length, room_width,
                                           DefaultMutationRate, child.rng)
              IN  /\ next_generation' = Append(next_generation, mutated.layout)
                  /\ rng' = mutated.rng
    /\ UNCHANGED << pc, selected_furniture, room_length, room_width, pop_size,
                    generations, furniture_list, population, gen, sorted_pop,
                    final_fitness, ga_return, result, error, fn_args, fn_out, heap, refs, ai, rp, session >>

\* The crossover branch when the pool has fewer than two layouts:
\* np.random.choice(len(parent_pool), 2, replace=False) raises ValueError
\* (line 289), and nothing catches it.
ReproduceCrossoverFails ==
    /\ pc = "repro"
    /\ NeedsMore(next_generation, pop_size)
    /\ LET r1   == RngNext(rng)
           pool == parent_pool(sorted_pop, pop_size)
       IN  /\ random_below(r1, 7)
           /\ Len(pool) < 2
           /\ rng' = r1
    /\ pc' = "raised"
    /\ error' = "ValueError"
    /\ UNCHANGED << selected_furniture, room_length, room_width, pop_size,
                    generations, furniture_list, population, gen, sorted_pop,
                    next_generation, final_fitness, ga_return, result,
                    fn_args, fn_out, heap, refs, ai, rp, session >>

\* One iteration of the while loop, fresh random layout (lines 292-298).
ReproduceRandom ==
    /\ pc = "repro"
    /\ NeedsMore(next_generation, pop_size)
    /\ LET r1 == RngNext(rng)
       IN  /\ ~ random_below(r1, 7)
           /\ LET child   == generate_layout_with_custom_furniture(
                                 furniture_list, room_length, room_width, r1)
                  mutated == mutate_layout(child.layout, room_length, room_width,
                                           DefaultMutationRate, child.rng)
              IN  /\ next_generation' = Append(next_generation, mutated.layout)
                  /\ rng' = mutated.rng
    /\ UNCHANGED << pc, selected_furniture, room_length, room_width, pop_size,
                    generations, furniture_list, population, gen, sorted_pop,
                    final_fitness, ga_return, result, error, fn_args, fn_out, heap, refs, ai, rp, session >>

\* The while loop is over: population = next_generation (line 300).
EndGeneration ==
    /\ pc = "repro"
    /\ ~ NeedsMore(next_generation, pop_size)
    /\ population' = next_generation
    /\ gen' = gen + 1
    /\ pc' = "loop"
    /\ UNCHANGED << selected_furniture, room_length, room_width, pop_size,
                    generations, rng, furniture_list, sorted_pop,
                    next_generation, final_fitness, ga_return, result, error,
                    fn_args, fn_out, heap, refs, ai, rp, session >>

\* Mutant: the last layout of the sorted list is returned.
returned_values_last(best_layouts) == << best_layouts[Len(best_layouts)] >>

\* The value of `return best_layouts[0]` (line 311): the layout, nothing else.
returned_values(best_layouts) == << best_layouts[1] >>

\* Lines 303-311: evaluate once more, sort, return the first.
ReturnBest ==
    /\ pc = "loop"
    /\ gen >= generations
    /\ population # << >>
    /\ final_fitness' = fitness_of(population, room_length, room_width)
    /\ ga_return' = returned_values(sort_by_fitness(final_fitness', population))
    /\ pc' = "instructions"
    /\ UNCHANGED << selected_furniture, room_length, room_width, pop_size,
                    generations, rng, furniture_list, population, gen,
                    sorted_pop, next_generation, result, error, fn_args, fn_out, heap, refs, ai, rp, session >>

\* Lines 303-311 on an empty population: best_layouts[0] raises IndexError.
ReturnBestFails ==
    /\ pc = "loop"
    /\ gen >= generations
    /\ population = << >>
    /\ final_fitness' = << >>
    /\ pc' = "raised"
    /\ error' = "IndexError"
    /\ UNCHANGED << selected_furniture, room_length, room_width, pop_size,
                    generations, rng, furniture_list, population, gen,
                    sorted_pop, next_generation, ga_return, result,
                    fn_args, fn_out, heap, refs, ai, rp, session >>

\* Lines 560-576: draw the layout, ask for placement instructions (None when
\* every attempt failed) and return the dictionary.
CompleteLayout ==
    /\ pc = "instructions"
    /\ \E placement_instructions \in { "None", "instructions" } :
         result' = [ success                |-> TRUE,
                     layout                 |-> ga_return[1],
                     placement_instructions |-> placement_instructions,
                     room_dims              |-> room_dims_of(room_length, room_width),
                     furniture_count        |-> Len(furniture_list) ]
    /\ pc' = "returned"
    /\ UNCHANGED << selected_furniture, room_length, room_width, pop_size,
                    generations, rng, furniture_list, population, gen,
                    sorted_pop, next_generation, final_fitness, ga_return,
                    error, fn_args, fn_out, heap, refs, ai, rp, session >>

Next ==
    \/ Prepare
    \/ InitPopulation
    \/ PopulationReady
    \/ StartGeneration
    \/ ReproduceCrossover
    \/ ReproduceCrossoverFails
    \/ ReproduceRandom
    \/ EndGeneration
    \/ ReturnBest
    \/ ReturnBestFails
    \/ CompleteLayout

Spec == Init /\ [][Next]_vars

-----------------------------------------------------------------------------
(* Single applications of the functions, on arguments of every shape: the    *)
(* positions include negative and out-of-room ones, which the search itself   *)
(* never produces.                                                            *)

Rect(x, y, length, width) ==
    [ name |-> "piece", x |-> x, y |-> y, length |-> length, width |-> width,
      rotation |-> 0, db_item |-> 0 ]

Coords == { 5 * k : k \in -2..MaxStep }

OverlapRects ==
    { Rect(x, y, d[1], d[2]) :
        x \in Coords, y \in { 0, 15, 20 }, d \in { << 10, 10 >>, << 20, 10 >> } }

OverlapCalls ==
    [ op : { "furniture_overlap" }, f1 : OverlapRects, f2 : OverlapRects,
      spacing : { 0, 5, 10 } ]

EvaluateRects ==
    { Rect(x, y, d[1], d[2]) :
        x \in { -5, 0, 20 }, y \in { 0, 25 }, d \in { << 10, 10 >>, << 40, 35 >> } }

RECURSIVE LayoutsOfLen(_)
LayoutsOfLen(n) ==
    IF n = 0 THEN { << >> }
    ELSE { Append(l, f) : l \in LayoutsOfLen(n - 1), f \in EvaluateRects }

EvaluateCalls ==
    { [ op |-> "evaluate_layout", layout |-> l,
        room_dims |-> room_dims_of(room[1], room[2]) ] :
        l \in UNION { LayoutsOfLen(n) : n \in 0..MaxPieces },
        room \in { << 30, 30 >>, << 60, 40 >> } }

PlaceCalls ==
    { [ op |-> "generate_layout_with_custom_furniture",
        furniture_list |-> prepare_furniture_for_layout(sel),
        room_length |-> room[1], room_width |-> room[2], rng |-> r ] :
        sel \in Selections, room \in Rooms, r \in 1..MaxState }

\* A layout and the same layout with one piece moved, to be scored both.
MoveRects == { Rect(x, y, 10, 10) : x \in { -5, 0, 20 }, y \in { 0, 25 } }

RECURSIVE MoveLayoutsOfLen(_)
MoveLayoutsOfLen(n) ==
    IF n = 0 THEN { << >> }
    ELSE { Append(l, f) : l \in MoveLayoutsOfLen(n - 1), f \in MoveRects }

MoveCalls ==
    { [ op |-> "evaluate_layout twice", layout |-> c[1], index |-> c[2],
        x |-> c[3].x, y |-> c[3].y, room_dims |-> room_dims_of(c[4][1], c[4][2]) ] :
        c \in { d \in (UNION { MoveLayoutsOfLen(n) : n \in 2..MaxPieces })
                        \X (1..MaxPieces) \X MoveRects
                        \X { << 30, 30 >>, << 60, 40 >> } :
                    d[2] <= Len(d[1]) } }

\* The layout with piece i at (x, y) and everything else as it was.
Moved(layout, i, x, y) == [ layout EXCEPT ![i].x = x, ![i].y = y ]

\* Parents for one crossover: two layouts of the same length.
CrossRects == { Rect(0, 0, 10, 10), Rect(20, 25, 10, 10) }

RECURSIVE CrossLayoutsOfLen(_)
CrossLayoutsOfLen(n) ==
    IF n = 0 THEN { << >> }
    ELSE { Append(l, f) : l \in CrossLayoutsOfLen(n - 1), f \in CrossRects }

CrossoverCalls ==
    UNION { [ op : { "crossover_layouts" }, parent1 : CrossLayoutsOfLen(n),
              parent2 : CrossLayoutsOfLen(n), rng : 1..MaxDraws ] : n \in 0..MaxPieces }

\* Layouts for one mutation: positions inside and outside the clamp range.
MutateRects == { Rect(-5, 0, 10, 10), Rect(20, 0, 10, 10), Rect(55, 0, 40, 35) }

RECURSIVE MutateLayoutsOfLen(_)
MutateLayoutsOfLen(n) ==
    IF n = 0 THEN { << >> }
    ELSE { Append(l, f) : l \in MutateLayoutsOfLen(n - 1), f \in MutateRects }

MutateCalls ==
    { [ op |-> "mutate_layout", layout |-> c[1], room_length |-> c[2][1],
        room_width |-> c[2][2], mutation_rate |-> c[3], rng |-> c[4] ] :
        c \in (UNION { MutateLayoutsOfLen(n) : n \in 0..MaxPieces })
                  \X { << 30, 30 >>, << 60, 40 >> } \X { 0, 3, 10 } \X (1..MaxDraws) }

\* A layout and rotation values for its pieces, to be scored with the
\* rotations as they are and with the given ones.
RotateRects == { Rect(x, y, 20, 10) : x \in { 0, 15 }, y \in { 0, 25 } }

RECURSIVE RotateLayoutsOfLen(_)
RotateLayoutsOfLen(n) ==
    IF n = 0 THEN { << >> }
    ELSE { Append(l, f) : l \in RotateLayoutsOfLen(n - 1), f \in RotateRects }

RotateCalls ==
    UNION { [ op : { "evaluate_layout rotated" }, layout : RotateLayoutsOfLen(n),
              rotations : [ 1..n -> { 0, 90, 180, 270 } ],
              room_dims : { room_dims_of(30, 30) } ] : n \in 0..MaxPieces }

\* The layout with the rotation values replaced.
Rotated(layout, rotations) ==
    [ i \in 1..Len(layout) |-> [ layout[i] EXCEPT !.rotation = rotations[i] ] ]

\* The pairs of positions for which furniture_overlap is true.
overlap_table(layout) ==
    { p \in (1..Len(layout)) \X (1..Len(layout)) :
        furniture_overlap(layout[p[1]], layout[p[2]], DefaultSpacing) }

InitFn ==
    /\ pc = "function"
    /\ selected_furniture = << >>
    /\ room_length = 0
    /\ room_width = 0
    /\ pop_size = 0
    /\ generations = 0
    /\ rng = 1
    /\ furniture_list = << >>
    /\ population = << >>
    /\ gen = 0
    /\ sorted_pop = << >>
    /\ next_generation = << >>
    /\ final_fitness = << >>
    /\ ga_return = << >>
    /\ result = NoResult
    /\ error = "none"
    /\ fn_args \in OverlapCalls \cup EvaluateCalls \cup PlaceCalls \cup MoveCalls
                 \cup CrossoverCalls \cup MutateCalls \cup RotateCalls
    /\ fn_out = NoCall
    /\ heap = << >>
    /\ refs = NoRefs
    /\ ai = NoAI
    /\ rp = NoRoom
    /\ session = NoSession

ApplyOverlap ==
    /\ fn_out = NoCall
    /\ fn_args.op = "furniture_overlap"
    /\ fn_out' = [ op    |-> fn_args.op,
                   value |-> furniture_overlap(fn_args.f1, fn_args.f2, fn_args.spacing) ]
    /\ UNCHANGED << ga_vars, fn_args >>

ApplyEvaluate ==
    /\ fn_out = NoCall
    /\ fn_args.op = "evaluate_layout"
    /\ fn_out' = [ op    |-> fn_args.op,
                   value |-> evaluate_layout(fn_args.layout, fn_args.room_dims) ]
    /\ UNCHANGED << ga_vars, fn_args >>

ApplyPlace ==
    /\ fn_out = NoCall
    /\ fn_args.op = "generate_layout_with_custom_furniture"
    /\ fn_out' = [ op    |-> fn_args.op,
                   value |-> generate_layout_with_custom_furniture(
                                 fn_args.furniture_list, fn_args.room_length,
                                 fn_args.room_width, fn_args.rng).layout ]
    /\ UNCHANGED << ga_vars, fn_args >>

ApplyEvaluateMoved ==
    /\ fn_out = NoCall
    /\ fn_args.op = "evaluate_layout twice"
    /\ fn_out' = [ op     |-> fn_args.op,
                   before |-> evaluate_layout(fn_args.layout, fn_args.room_dims),
                   after  |-> evaluate_layout(
                                  Moved(fn_args.layout, fn_args.index, fn_args.x, fn_args.y),
                                  fn_args.room_dims) ]
    /\ UNCHANGED << ga_vars, fn_args >>

ApplyCrossover ==
    /\ fn_out = NoCall
    /\ fn_args.op = "crossover_layouts"
    /\ fn_out' = [ op    |-> fn_args.op,
                   value |-> crossover_layouts(fn_args.parent1, fn_args.parent2,
                                               fn_args.rng).layout ]
    /\ UNCHANGED << ga_vars, fn_args >>

ApplyMutate ==
    /\ fn_out = NoCall
    /\ fn_args.op = "mutate_layout"
    /\ fn_out' = [ op    |-> fn_args.op,
                   value |-> mutate_layout(fn_args.layout, fn_args.room_length,
                                           fn_args.room_width, fn_args.mutation_rate,
                                           fn_args.rng).layout ]
    /\ UNCHANGED << ga_vars, fn_args >>

ApplyEvaluateRotated ==
    /\ fn_out = NoCall
    /\ fn_args.op = "evaluate_layout rotated"
    /\ LET turned == Rotated(fn_args.layout, fn_args.rotations)
       IN  fn_out' = [ op              |-> fn_args.op,
                       before          |-> evaluate_layout(fn_args.layout, fn_args.room_dims),
                       after           |-> evaluate_layout(turned, fn_args.room_dims),
                       overlaps_before |-> overlap_table(fn_args.layout),
                       overlaps_after  |-> overlap_table(turned) ]
    /\ UNCHANGED << ga_vars, fn_args >>

NextFn ==
    \/ ApplyOverlap
    \/ ApplyEvaluate
    \/ ApplyPlace
    \/ ApplyEvaluateMoved
    \/ ApplyCrossover
    \/ ApplyMutate
    \/ ApplyEvaluateRotated

SpecFn == InitFn /\ [][NextFn]_vars

-----------------------------------------------------------------------------
(* generate_layouts_with_furniture with object identity.  A furniture         *)
(* dictionary is an object of the heap, named by its position there; a layout *)
(* is a list of such references.  dict.copy() makes a new object, a list      *)
(* slice shares the objects it lists, and an item assignment writes to the    *)
(* object the reference names.                                                *)

\* Mutant: no copy is made, the reference names the original dictionary.
dict_copy_alias(h, id) == [ heap |-> h, ref |-> id ]

\* furniture.copy() (lines 207, 209, 227): a new dictionary with the same entries.
dict_copy(h, id) == [ heap |-> Append(h, h[id]), ref |-> Len(h) + 1 ]

\* The dictionary display of lines 106-114: a new dictionary.
new_dict(h, entries) == [ heap |-> Append(h, entries), ref |-> Len(h) + 1 ]

\* The layout a list of references stands for.
Deref(h, layout) == [ i \in 1..Len(layout) |-> h[layout[i]] ]

RECURSIVE RefPlaceUpTo(_, _, _, _, _, _)
RefPlaceUpTo(h, fl, rl, rw, r, k) ==
    IF k = 0 THEN [ heap |-> h, layout |-> << >>, rng |-> r ]
    ELSE LET before == RefPlaceUpTo(h, fl, rl, rw, r, k - 1)
             placed == random_piece(fl[k], rl, rw, before.rng)
             made   == new_dict(before.heap, placed.piece)
         IN  [ heap   |-> made.heap,
               layout |-> Append(before.layout, made.ref),
               rng    |-> placed.rng ]

\* generate_layout_with_custom_furniture (lines 101-118) on the heap.
RefPlace(h, fl, rl, rw, r) == RefPlaceUpTo(h, fl, rl, rw, r, Len(fl))

RECURSIVE RefCrossUpTo(_, _, _, _, _)
RefCrossUpTo(h, parent1, parent2, r, k) ==
    IF k = 0 THEN [ heap |-> h, layout |-> << >>, rng |-> r ]
    ELSE LET before == RefCrossUpTo(h, parent1, parent2, r, k - 1)
             r1     == RngNext(before.rng)
             copied == dict_copy(before.heap, crossover_pick(parent1, parent2, k, r1))
         IN  [ heap   |-> copied.heap,
               layout |-> Append(before.layout, copied.ref),
               rng    |-> r1 ]

\* crossover_layouts (lines 204-210) on the heap.
RefCross(h, parent1, parent2, r) == RefCrossUpTo(h, parent1, parent2, r, Len(parent1))

RECURSIVE RefMutateUpTo(_, _, _, _, _, _, _)
RefMutateUpTo(h, layout, rl, rw, mutation_rate, r, k) ==
    IF k = 0 THEN [ heap |-> h, layout |-> << >>, rng |-> r ]
    ELSE LET before  == RefMutateUpTo(h, layout, rl, rw, mutation_rate, r, k - 1)
             copied  == dict_copy(before.heap, layout[k])
             mutated == mutate_piece(before.heap[layout[k]], rl, rw,
                                     mutation_rate, before.rng)
         IN  [ heap   |-> [ copied.heap EXCEPT
                              ![copied.ref] = [ @ EXCEPT !.x = mutated.piece.x,
                                                         !.y = mutated.piece.y ] ],
               layout |-> Append(before.layout, copied.ref),
               rng    |-> mutated.rng ]

\* mutate_layout (lines 225-244) on the heap: new_furniture["x"] and
\* new_furniture["y"] are written to the object new_furniture names.
RefMutate(h, layout, rl, rw, mutation_rate, r) ==
    RefMutateUpTo(h, layout, rl, rw, mutation_rate, r, Len(layout))

\* The scores of a list of referenced layouts.
ref_fitness_of(h, pop, rl, rw) ==
    [ i \in 1..Len(pop) |-> evaluate_layout(Deref(h, pop[i]), room_dims_of(rl, rw)) ]

\* The search is entered with a prepared bed and chair, a 12.0 x 10.0 room and
\* a population large enough for a parent pool of two.
InitRef ==
    /\ pc = "ref_init"
    /\ selected_furniture = << Wrapped("beds", Bed), Direct("chairs", Chair) >>
    /\ furniture_list = prepare_furniture_for_layout(selected_furniture)
    /\ room_length = 120
    /\ room_width = 100
    /\ pop_size \in 4..(MaxPop + 1)
    /\ generations \in 0..MaxGen
    /\ \E seed \in 1..MaxSeed : rng = RngSeed(seed)
    /\ population = << >>
    /\ gen = 0
    /\ sorted_pop = << >>
    /\ next_generation = << >>
    /\ final_fitness = << >>
    /\ ga_return = << >>
    /\ result = NoResult
    /\ error = "none"
    /\ fn_args = NoCall
    /\ fn_out = NoCall
    /\ heap = << >>
    /\ refs = NoRefs
    /\ ai = NoAI
    /\ rp = NoRoom
    /\ session = NoSession

\* What no step of the search on the heap changes.
ref_frame == << selected_furniture, room_length, room_width, pop_size,
                generations, furniture_list, population, sorted_pop,
                next_generation, final_fitness, ga_return, result, error,
                fn_args, fn_out, ai, rp, session >>

\* One iteration of `for _ in range(pop_size)` (lines 263-265).
RefInitPopulation ==
    /\ pc = "ref_init"
    /\ Len(refs.population) < pop_size
    /\ LET placed == RefPlace(heap, furniture_list, room_length, room_width, rng)
       IN  /\ heap' = placed.heap
           /\ refs' = [ refs EXCEPT !.population = Append(@, placed.layout) ]
           /\ rng' = placed.rng
    /\ UNCHANGED << pc, gen, ref_frame >>

\* The loop of lines 263-265 is over.
RefPopulationReady ==
    /\ pc = "ref_init"
    /\ Len(refs.population) >= pop_size
    /\ pc' = "ref_loop"
    /\ UNCHANGED << rng, gen, heap, refs, ref_frame >>

\* Lines 268-282: evaluate, sort, and start the next generation with the
\* slice sorted_pop[:elite_count], which lists the same layouts.
RefStartGeneration ==
    /\ pc = "ref_loop"
    /\ gen < generations
    /\ LET sorted == sort_by_fitness(
                         ref_fitness_of(heap, refs.population, room_length, room_width),
                         refs.population)
       IN  refs' = [ refs EXCEPT !.sorted_pop = sorted,
                                 !.next_generation = Take(sorted, elite_count(pop_size)) ]
    /\ pc' = "ref_repro"
    /\ UNCHANGED << rng, gen, heap, ref_frame >>

\* Lines 286-291: a child by crossover of two layouts of the parent pool.
RefCrossover ==
    /\ pc = "ref_repro"
    /\ NeedsMore(refs.next_generation, pop_size)
    /\ LET r1   == RngNext(rng)
           pool == parent_pool(refs.sorted_pop, pop_size)
       IN  /\ random_below(r1, 7)
           /\ Len(pool) >= 2
           /\ LET r2    == RngNext(r1)
                  idx   == choice_two(r2, Len(pool))
                  child == RefCross(heap, pool[idx[1]], pool[idx[2]], r2)
              IN  /\ heap' = child.heap
                  /\ refs' = [ refs EXCEPT !.child = child.layout ]
                  /\ rng' = child.rng
    /\ pc' = "ref_mutate"
    /\ UNCHANGED << gen, ref_frame >>

\* Lines 292-295: a child placed at random.
RefRandom ==
    /\ pc = "ref_repro"
    /\ NeedsMore(refs.next_generation, pop_size)
    /\ LET r1 == RngNext(rng)
       IN  /\ ~ random_below(r1, 7)
           /\ LET child == RefPlace(heap, furniture_list, room_length, room_width, r1)
              IN  /\ heap' = child.heap
                  /\ refs' = [ refs EXCEPT !.child = child.layout ]
                  /\ rng' = child.rng
    /\ pc' = "ref_mutate"
    /\ UNCHANGED << gen, ref_frame >>

\* Lines 297-298: the child is mutated and appended.
RefMutateChild ==
    /\ pc = "ref_mutate"
    /\ LET mutated == RefMutate(heap, refs.child, room_length, room_width,
                                DefaultMutationRate, rng)
       IN  /\ heap' = mutated.heap
           /\ refs' = [ refs EXCEPT !.child = << >>,
                                    !.next_generation = Append(@, mutated.layout) ]
           /\ rng' = mutated.rng
    /\ pc' = "ref_repro"
    /\ UNCHANGED << gen, ref_frame >>

\* population = next_generation (line 300).
RefEndGeneration ==
    /\ pc = "ref_repro"
    /\ ~ NeedsMore(refs.next_generation, pop_size)
    /\ refs' = [ refs EXCEPT !.population = refs.next_generation ]
    /\ gen' = gen + 1
    /\ pc' = "ref_loop"
    /\ UNCHANGED << rng, heap, ref_frame >>

\* Lines 303-311: evaluate once more, sort, return the first.
RefReturnBest ==
    /\ pc = "ref_loop"
    /\ gen >= generations
    /\ refs' = [ refs EXCEPT !.best =
                   returned_values(sort_by_fitness(
                       ref_fitness_of(heap, refs.population, room_length, room_width),
                       refs.population))[1] ]
    /\ pc' = "ref_returned"
    /\ UNCHANGED << rng, gen, heap, ref_frame >>

NextRef ==
    \/ RefInitPopulation
    \/ RefPopulationReady
    \/ RefStartGeneration
    \/ RefCrossover
    \/ RefRandom
    \/ RefMutateChild
    \/ RefEndGeneration
    \/ RefReturnBest

SpecRef == InitRef /\ [][NextRef]_vars

-----------------------------------------------------------------------------
(* get_ai_placement_instructions: the retry loop of lines 471-529.  The       *)
(* remote model answers with a text, or the request fails.                    *)

\* An answer of the remote model: its text, and the markdown fence around it
\* ("json" for a fence opened with three backquotes and json, "plain" for
\* three backquotes alone, "none" for no fence).
Answer(fence, body) == [ kind |-> "text", fence |-> fence, body |-> body ]

\* The request itself failed: completions.create raised.
NoResponse == [ kind |-> "error", fence |-> "none", body |-> "" ]

ObjectText == "{\"bed\": \"Place the bed against the front wall.\"}"

\* What a request can come back with.
ApiOutcomes ==
    { Answer("none", ObjectText), Answer("json", ObjectText),
      Answer("plain", "{}"), Answer("none", "{}"), Answer("none", "[\"bed\"]"),
      Answer("none", "Here is the layout."), NoResponse }

\* Lines 492-496: the text stripped, with the markdown fences removed.
clean_response(answer) == answer.body

\* json.loads on the texts of the model: the parsed value, or the error.
json_loads(text) ==
    CASE text = ObjectText  -> [ type |-> "dict", len |-> 1 ]
      [] text = "{}"        -> [ type |-> "dict", len |-> 0 ]
      [] text = "[\"bed\"]" -> [ type |-> "list", len |-> 1 ]
      [] OTHER              -> [ type |-> "JSONDecodeError", len |-> 0 ]

\* The exception one attempt ends with (lines 478-505), or "none".
exception_of(outcome) ==
    LET parsed == json_loads(clean_response(outcome))
    IN  CASE outcome.kind = "error"           -> "APIError"
          [] parsed.type = "JSONDecodeError"  -> "JSONDecodeError"
          [] parsed.type # "dict"             -> "ValueError"
          [] parsed.len = 0                   -> "ValueError"
          [] OTHER                            -> "none"

\* Mutant: only a JSON error and a failed validation are caught.
caught_parse_errors_only(exception) == exception \in { "JSONDecodeError", "ValueError" }

\* `except json.JSONDecodeError` and `except Exception` (lines 514, 521).
caught(exception) == exception \in { "JSONDecodeError", "ValueError", "APIError" }

\* Mutant: a retry is announced after every failed attempt.
may_retry_always(attempt, max_retries) == attempt < max_retries

\* `if attempt < max_retries - 1` (lines 515, 522).
may_retry(attempt, max_retries) == attempt < max_retries - 1

None == [ type |-> "None", len |-> 0 ]

InitAI ==
    /\ pc = "ai"
    /\ selected_furniture = << >>
    /\ room_length = 0
    /\ room_width = 0
    /\ pop_size = 0
    /\ generations = 0
    /\ rng = 1
    /\ furniture_list = << >>
    /\ population = << >>
    /\ gen = 0
    /\ sorted_pop = << >>
    /\ next_generation = << >>
    /\ final_fitness = << >>
    /\ ga_return = << >>
    /\ result = NoResult
    /\ error = "none"
    /\ fn_args = NoCall
    /\ fn_out = NoCall
    /\ heap = << >>
    /\ refs = NoRefs
    /\ rp = NoRoom
    /\ session = NoSession
    /\ \E max_retries \in 0..MaxRetries :
         ai = [ pc |-> "loop", max_retries |-> max_retries, attempt |-> 0,
                requests |-> 0, sleeps |-> 0, log |-> << >>, value |-> None ]

\* What the retry loop does not touch.
ai_frame == << pc, selected_furniture, room_length, room_width, pop_size,
               generations, rng, furniture_list, population, gen, sorted_pop,
               next_generation, final_fitness, ga_return, result, error,
               fn_args, fn_out, heap, refs, rp, session >>

\* Lines 471-489: the next attempt sends its request.
AISendRequest ==
    /\ ai.pc = "loop"
    /\ ai.attempt < ai.max_retries
    /\ ai' = [ ai EXCEPT !.pc = "await", !.requests = @ + 1 ]
    /\ UNCHANGED ai_frame

\* Lines 491-512: the answer is a non-empty JSON object and is returned.
AIAccept ==
    /\ ai.pc = "await"
    /\ \E outcome \in ApiOutcomes :
         /\ exception_of(outcome) = "none"
         /\ ai' = [ ai EXCEPT !.pc = "returned",
                              !.log = Append(@, outcome),
                              !.value = json_loads(clean_response(outcome)) ]
    /\ UNCHANGED ai_frame

\* Lines 514-527: the attempt failed; wait two seconds and try again, or
\* return None after the last attempt.  An exception no handler catches
\* leaves the function.
AIFail ==
    /\ ai.pc = "await"
    /\ \E outcome \in ApiOutcomes :
         /\ exception_of(outcome) # "none"
         /\ IF ~ caught(exception_of(outcome))
            THEN ai' = [ ai EXCEPT !.pc = "raised", !.log = Append(@, outcome) ]
            ELSE IF may_retry(ai.attempt, ai.max_retries)
            THEN ai' = [ ai EXCEPT !.pc = "loop",
                                   !.log = Append(@, outcome),
                                   !.sleeps = @ + 1,
                                   !.attempt = @ + 1 ]
            ELSE ai' = [ ai EXCEPT !.pc = "returned",
                                   !.log = Append(@, outcome),
                                   !.value = None ]
    /\ UNCHANGED ai_frame

\* Line 529: the range of attempts is used up.
AIRangeExhausted ==
    /\ ai.pc = "loop"
    /\ ai.attempt >= ai.max_retries
    /\ ai' = [ ai EXCEPT !.pc = "returned", !.value = None ]
    /\ UNCHANGED ai_frame

NextAI ==
    \/ AISendRequest
    \/ AIAccept
    \/ AIFail
    \/ AIRangeExhausted

SpecAI == InitAI /\ [][NextAI]_vars

-----------------------------------------------------------------------------
(* room_processor.py: predict_room_dimensions and process_uploaded_room.      *)
(* Python's None is the string "None" for paths and messages, and the record  *)
(* None for the dimensions.  Numbers of feet are in tenths, as elsewhere.     *)

\* What the dimension request can come back with: a text, or a failure
\* (requests.post or raise_for_status raises, or the reply has no choices).
DimensionOutcomes ==
    { Answer("none", "{\"length\": 15, \"width\": 12}"),
      Answer("none", "The room is roughly {\"length\": 15} feet long."),
      Answer("none", "{\"length\": \"large\", \"width\": 12}"),
      Answer("none", "{length: 15, width: 12}"),
      Answer("none", "I cannot estimate the dimensions of this room."),
      NoResponse }

\* re.search(r'\{[^}]+\}', text): the first brace group, or "" for no match.
search_object(text) ==
    CASE text = "{\"length\": 15, \"width\": 12}"
             -> "{\"length\": 15, \"width\": 12}"
      [] text = "The room is roughly {\"length\": 15} feet long."
             -> "{\"length\": 15}"
      [] text = "{\"length\": \"large\", \"width\": 12}"
             -> "{\"length\": \"large\", \"width\": 12}"
      [] text = "{length: 15, width: 12}"
             -> "{length: 15, width: 12}"
      [] OTHER -> ""

\* json.loads on a brace group: the entries under 'length' and 'width' as
\* written ("absent" for a missing key), or the error.
loads_dimensions(text) ==
    CASE text = "{\"length\": 15, \"width\": 12}"
             -> [ type |-> "dict", length |-> "15", width |-> "12" ]
      [] text = "{\"length\": 15}"
             -> [ type |-> "dict", length |-> "15", width |-> "absent" ]
      [] text = "{\"length\": \"large\", \"width\": 12}"
             -> [ type |-> "dict", length |-> "large", width |-> "12" ]
      [] OTHER -> [ type |-> "JSONDecodeError", length |-> "absent", width |-> "absent" ]

\* float(dimensions.get(key, 12)) in tenths of a foot; ok is FALSE when float
\* raises ValueError.
float_or_default(entry) ==
    CASE entry = "absent" -> [ ok |-> TRUE,  value |-> 120 ]
      [] entry = "15"     -> [ ok |-> TRUE,  value |-> 150 ]
      [] entry = "12"     -> [ ok |-> TRUE,  value |-> 120 ]
      [] OTHER            -> [ ok |-> FALSE, value |-> 0 ]

\* {'length': 12.0, 'width': 12.0} (line 319).
DefaultDimensions == [ type |-> "dict", length |-> 120, width |-> 120 ]

\* predict_room_dimensions (lines 282-319): the dictionary of the brace group
\* found in the answer; the default when anything raises; and, when the answer
\* holds no brace group, nothing is returned (the fallback of lines 305-316 is
\* commented out), that is None.
predict_room_dimensions(outcome) ==
    IF outcome.kind = "error" THEN DefaultDimensions
    ELSE LET json_match == search_object(outcome.body)
             dimensions == loads_dimensions(json_match)
             length     == float_or_default(dimensions.length)
             width      == float_or_default(dimensions.width)
         IN  IF json_match = "" THEN None
             ELSE IF dimensions.type = "JSONDecodeError" THEN DefaultDimensions
             ELSE IF ~ (length.ok /\ width.ok) THEN DefaultDimensions
             ELSE [ type |-> "dict", length |-> length.value, width |-> width.value ]

\* The files of the model, by uploaded_file.name.
UploadedNames == { "room.png", "bedroom.jpg" }

\* str(ORIGINAL_ROOM_DIR / f"room_original_{uploaded_file.name}") (lines 351-359).
original_path_of(name) ==
    IF name = "room.png" THEN "room_original_room.png" ELSE "room_original_bedroom.jpg"

\* str(CLEAN_ROOM_DIR / f"clean_{original_filename}") (lines 384-386).
clean_path_of(name) ==
    IF name = "room.png" THEN "clean_room_original_room.png"
                         ELSE "clean_room_original_bedroom.jpg"

\* The dictionary of lines 336-343.
EmptyRoomResult ==
    [ success |-> FALSE, original_path |-> "None", clean_path |-> "None",
      dimensions |-> None, iterations |-> 0, error |-> "None" ]

InitRoom ==
    /\ pc = "room"
    /\ selected_furniture = << >>
    /\ room_length = 0
    /\ room_width = 0
    /\ pop_size = 0
    /\ generations = 0
    /\ rng = 1
    /\ furniture_list = << >>
    /\ population = << >>
    /\ gen = 0
    /\ sorted_pop = << >>
    /\ next_generation = << >>
    /\ final_fitness = << >>
    /\ ga_return = << >>
    /\ result = NoResult
    /\ error = "none"
    /\ fn_args = NoCall
    /\ fn_out = NoCall
    /\ heap = << >>
    /\ refs = NoRefs
    /\ ai = NoAI
    /\ session = NoSession
    /\ \E max_iterations \in 0..MaxIterations, name \in UploadedNames :
         rp = [ pc |-> "open", name |-> name, max_iterations |-> max_iterations,
                iteration |-> 0, result |-> EmptyRoomResult ]

\* What process_uploaded_room does not touch.
rp_frame == << pc, selected_furniture, room_length, room_width, pop_size,
               generations, rng, furniture_list, population, gen, sorted_pop,
               next_generation, final_fitness, ga_return, result, error,
               fn_args, fn_out, heap, refs, ai, session >>

\* Lines 346-363: open, resize and save the image; an exception goes to the
\* handler of lines 415-418.
RoomOpen ==
    /\ rp.pc = "open"
    /\ \E opened \in BOOLEAN :
         rp' = IF opened
               THEN [ rp EXCEPT !.pc = "loop", !.iteration = 1,
                                !.result.original_path = original_path_of(rp.name) ]
               ELSE [ rp EXCEPT !.pc = "returned",
                                !.result.error = "cannot identify image file" ]
    /\ UNCHANGED rp_frame

\* Lines 365-373: one more removal; without an edited image the call returns.
RoomRemoveObjects ==
    /\ rp.pc = "loop"
    /\ rp.iteration <= rp.max_iterations
    /\ \E edited \in BOOLEAN :
         rp' = IF edited
               THEN [ rp EXCEPT !.pc = "check" ]
               ELSE [ rp EXCEPT !.pc = "returned",
                                !.result.error = "Failed at iteration" ]
    /\ UNCHANGED rp_frame

\* Lines 375-396: the cleanliness check ends the loop or starts another turn.
RoomCheckClean ==
    /\ rp.pc = "check"
    /\ \E is_clean \in BOOLEAN :
         rp' = IF is_clean
               THEN [ rp EXCEPT !.pc = "after_loop",
                                !.result.clean_path = clean_path_of(rp.name),
                                !.result.iterations = rp.iteration ]
               ELSE [ rp EXCEPT !.pc = "loop", !.iteration = @ + 1 ]
    /\ UNCHANGED rp_frame

\* `while iteration <= max_iterations` is false.
RoomLoopEnds ==
    /\ rp.pc = "loop"
    /\ rp.iteration > rp.max_iterations
    /\ rp' = [ rp EXCEPT !.pc = "after_loop" ]
    /\ UNCHANGED rp_frame

\* Lines 398-400.
RoomNotClean ==
    /\ rp.pc = "after_loop"
    /\ rp.result.clean_path = "None"
    /\ rp' = [ rp EXCEPT !.pc = "returned",
                         !.result.error = "Room still not clean" ]
    /\ UNCHANGED rp_frame

\* Lines 402-413 and the handler of lines 415-418: the dimensions are stored
\* and success is set; the print of line 411 subscripts the dimensions, which
\* raises TypeError when they are None; the handler then records the error and
\* returns the result as it is.
RoomPredict ==
    /\ rp.pc = "after_loop"
    /\ rp.result.clean_path # "None"
    /\ \E outcome \in DimensionOutcomes :
         LET dimensions == predict_room_dimensions(outcome)
         IN  rp' = [ rp EXCEPT !.pc = "returned",
                               !.result.dimensions = dimensions,
                               !.result.success = TRUE,
                               !.result.error =
                                   IF dimensions = None
                                   THEN "'NoneType' object is not subscriptable"
                                   ELSE @ ]
    /\ UNCHANGED rp_frame

NextRoom ==
    \/ RoomOpen
    \/ RoomRemoveObjects
    \/ RoomCheckClean
    \/ RoomLoopEnds
    \/ RoomNotClean
    \/ RoomPredict

SpecRoom == InitRoom /\ [][NextRoom]_vars

-----------------------------------------------------------------------------
(* app.py: the wizard.  Streamlit runs the script from top to bottom on every *)
(* click; what survives from one run to the next is st.session_state.  The    *)
(* session below keeps the entries that gate the steps of the wizard.         *)

\* categories=['beds', 'chairs', 'sofas', 'tables'] (line 342).
Categories == { "beds", "chairs", "sofas", "tables" }

\* top_k=3 (line 343): the recommended items of a category, by rank.
top_k == 3

\* Python truthiness of an entry that is None or a non-empty dictionary.
truthy(value) == value # None

\* len(adict).
dict_len(adict) == Cardinality(DOMAIN adict)

\* adict[key] = value.
dict_set(adict, key, value) ==
    [ k \in (DOMAIN adict) \cup { key } |-> IF k = key THEN value ELSE adict[k] ]

\* Lines 29-78: the entries of a new session.
NewSession ==
    [ ai_room_description       |-> "",
      furniture_recommendations |-> None,
      selected_furniture        |-> << >>,
      room_processed            |-> FALSE,
      room_data                 |-> None,
      layout_generated          |-> FALSE,
      layout_data               |-> None,
      furniture_placed          |-> FALSE,
      placement_data            |-> None,
      final_refined             |-> FALSE,
      refined_data              |-> None ]

\* What process_uploaded_room(uploaded_room, max_iterations=3) (line 490) can
\* return: a failure, or the success of RoomPredict after 1 to 3 iterations.
room_results ==
    { [ EmptyRoomResult EXCEPT !.error = "Room still not clean" ] }
    \cup
    { [ success       |-> TRUE,
        original_path |-> original_path_of("room.png"),
        clean_path    |-> clean_path_of("room.png"),
        dimensions    |-> predict_room_dimensions(outcome),
        iterations    |-> iterations,
        error         |-> IF predict_room_dimensions(outcome) = None
                          THEN "'NoneType' object is not subscriptable"
                          ELSE "None" ] :
      outcome \in DimensionOutcomes, iterations \in 1..3 }

\* What generate_complete_layout returns for the selection (lines 581-587):
\* the failure of an empty furniture list, or the dictionary of CompleteLayout
\* with the instructions or with None.
layout_results(room_dims) ==
    { [ success |-> FALSE, placement_instructions |-> "None",
        room_dims |-> room_dims, furniture_count |-> 0 ] }
    \cup
    { [ success |-> TRUE, placement_instructions |-> placement_instructions,
        room_dims |-> room_dims, furniture_count |-> 4 ] :
      placement_instructions \in { "None", "instructions" } }

\* Line 563 subscripts room_data['dimensions'] whenever Step 9 is shown: with
\* dimensions None the script run ends there and nothing below is drawn.
reaches_step_9(s) == s.room_processed /\ truthy(s.room_data)

passes_step_9(s) ==
    reaches_step_9(s) => s.room_data.dimensions # None

\* Lines 266-284: "Generate AI Room Description".
describe_room(s) ==
    { s, [ s EXCEPT !.ai_room_description = "description" ] }

\* Lines 289, 331-356: "Find Matching Furniture".
find_furniture(s) ==
    IF s.ai_room_description # ""
    THEN { s, [ s EXCEPT !.furniture_recommendations =
                             [ type |-> "dict", len |-> 4 ] ] }
    ELSE { }

\* Lines 360, 404-412: "Select This Item".
select_item(s) ==
    IF s.ai_room_description # "" /\ truthy(s.furniture_recommendations)
    THEN { [ s EXCEPT !.selected_furniture = dict_set(@, category, item) ] :
           category \in Categories, item \in 1..top_k }
    ELSE { }

\* Lines 456, 478-499: "Process Room Image".
process_room(s) ==
    IF dict_len(s.selected_furniture) = 4 /\ ~ s.room_processed
    THEN { IF r.success
           THEN [ s EXCEPT !.room_processed = TRUE, !.room_data = r ]
           ELSE s : r \in room_results }
    ELSE { }

\* The button of lines 566-567 is drawn.
generate_offered(s) ==
    /\ reaches_step_9(s)
    /\ passes_step_9(s)
    /\ ~ s.layout_generated

\* Lines 556-598: "Generate Optimal Layout".
generate_layout(s) ==
    IF generate_offered(s)
    THEN { IF r.success
           THEN [ s EXCEPT !.layout_data = r, !.layout_generated = TRUE ]
           ELSE s : r \in layout_results(s.room_data.dimensions) }
    ELSE { }

\* The button of lines 697-698 is drawn.
place_offered(s) ==
    /\ passes_step_9(s)
    /\ s.layout_generated
    /\ truthy(s.layout_data)
    /\ s.layout_data.placement_instructions # "None"
    /\ ~ s.furniture_placed

\* Lines 676-742: "Place Furniture in Room".
place_furniture(s) ==
    IF place_offered(s)
    THEN { s, [ s EXCEPT !.placement_data = [ type |-> "dict", len |-> 2 ],
                         !.furniture_placed = TRUE ] }
    ELSE { }

\* Lines 776-833: "Apply Design Theme".
refine_room(s) ==
    IF /\ passes_step_9(s)
       /\ s.furniture_placed
       /\ truthy(s.placement_data)
       /\ s.ai_room_description # ""
       /\ ~ s.final_refined
    THEN { s, [ s EXCEPT !.refined_data = [ type |-> "dict", len |-> 2 ],
                         !.final_refined = TRUE ] }
    ELSE { }

\* Every session one click can lead to.
one_click(s) ==
    describe_room(s) \cup find_furniture(s) \cup select_item(s)
    \cup process_room(s) \cup generate_layout(s) \cup place_furniture(s)
    \cup refine_room(s)

\* Every session some sequence of clicks can lead to from the sessions of
\* frontier, seen being the sessions already visited.
RECURSIVE sessions_after(_, _)
sessions_after(seen, frontier) ==
    LET new == (UNION { one_click(s) : s \in frontier }) \ seen
    IN  IF new = { } THEN seen ELSE sessions_after(seen \cup new, new)

InitWizard ==
    /\ pc = "wizard"
    /\ selected_furniture = << >>
    /\ room_length = 0
    /\ room_width = 0
    /\ pop_size = 0
    /\ generations = 0
    /\ rng = 1
    /\ furniture_list = << >>
    /\ population = << >>
    /\ gen = 0
    /\ sorted_pop = << >>
    /\ next_generation = << >>
    /\ final_fitness = << >>
    /\ ga_return = << >>
    /\ result = NoResult
    /\ error = "none"
    /\ fn_args = NoCall
    /\ fn_out = NoCall
    /\ heap = << >>
    /\ refs = NoRefs
    /\ ai = NoAI
    /\ rp = NoRoom
    /\ session = NewSession

\* What the wizard does not touch.
wizard_frame == << pc, selected_furniture, room_length, room_width, pop_size,
                   generations, rng, furniture_list, population, gen,
                   sorted_pop, next_generation, final_fitness, ga_return,
                   result, error, fn_args, fn_out, heap, refs, ai, rp >>

WizardDescribe ==
    /\ session' \in describe_room(session)
    /\ UNCHANGED wizard_frame

WizardFindFurniture ==
    /\ session' \in find_furniture(session)
    /\ UNCHANGED wizard_frame

WizardSelect ==
    /\ session' \in select_item(session)
    /\ UNCHANGED wizard_frame

WizardProcessRoom ==
    /\ session' \in process_room(session)
    /\ UNCHANGED wizard_frame

WizardGenerateLayout ==
    /\ session' \in generate_layout(session)
    /\ UNCHANGED wizard_frame

WizardPlaceFurniture ==
    /\ session' \in place_furniture(session)
    /\ UNCHANGED wizard_frame

WizardRefine ==
    /\ session' \in refine_room(session)
    /\ UNCHANGED wizard_frame

NextWizard ==
    \/ WizardDescribe
    \/ WizardFindFurniture
    \/ WizardSelect
    \/ WizardProcessRoom
    \/ WizardGenerateLayout
    \/ WizardPlaceFurniture
    \/ WizardRefine

SpecWizard == InitWizard /\ [][NextWizard]_vars

-----------------------------------------------------------------------------
(* Every call of the model: a run of generate_complete_layout, or a single    *)
(* application of one of the functions.                                       *)

InitAll == Init \/ InitFn

NextAll == Next \/ NextFn

SpecAll == InitAll /\ [][NextAll]_vars

-----------------------------------------------------------------------------
(* Properties of generate_complete_layout and of the search inside it. *)

Returned == pc \in { "instructions", "returned" } /\ ga_return # << >>

RoomDims == room_dims_of(room_length, room_width)

MaxOfSeq(scores) == CHOOSE m \in { scores[i] : i \in DOMAIN scores } :
                        \A i \in DOMAIN scores : m >= scores[i]

\* C1: evaluate never returns a value below 0, whatever the layout and the
\* room, also when the penalties exceed the base score and the bonuses.
C1_ScoreNeverNegative ==
    fn_out.op = "evaluate_layout" => fn_out.value >= 0

\* C1, witness: a layout whose penalties outweigh everything else was scored.
C1_Witness ==
    /\ fn_out.op = "evaluate_layout"
    /\ RawScore(fn_args.layout, fn_args.room_dims) < 0
    /\ fn_out.value = 0

\* C2: the layout the search returns is a member of the final population and
\* no layout of the final population scores higher.
C2_BestOfFinalPopulation ==
    Returned =>
        /\ \E i \in DOMAIN population : population[i] = ga_return[1]
        /\ \A i \in DOMAIN population :
             evaluate_layout(ga_return[1], RoomDims)
                 >= evaluate_layout(population[i], RoomDims)

\* C2, witness: the search returned after at least one generation, from a
\* final population whose layouts do not all score the same.
C2_Witness ==
    /\ pc = "returned"
    /\ ga_return # << >>
    /\ gen >= 1
    /\ \E i, j \in DOMAIN population :
         evaluate_layout(population[i], RoomDims)
             > evaluate_layout(population[j], RoomDims)

\* C3, as claimed: the search returns the best layout together with its
\* score, and that score is evaluate of the layout and is >= 0.
C3_ReturnsLayoutAndScore ==
    Returned =>
        /\ Len(ga_return) = 2
        /\ ga_return[2] = evaluate_layout(ga_return[1], RoomDims)
        /\ ga_return[2] >= 0

\* C3, amended: the search returns the best layout alone; no score is returned,
\* neither by the search nor in the dictionary of generate_complete_layout.
\* Evaluating the returned layout gives the highest score of the final
\* evaluation, which is >= 0.
C3_ReturnsLayoutOnly ==
    /\ Returned =>
         /\ Len(ga_return) = 1
         /\ evaluate_layout(ga_return[1], RoomDims) = MaxOfSeq(final_fitness)
         /\ evaluate_layout(ga_return[1], RoomDims) >= 0
    /\ pc = "returned" /\ result.success =>
         /\ result.layout = ga_return[1]
         /\ "score" \notin DOMAIN result

\* C3, witness: generate_complete_layout returned a successful result whose
\* final scores differ.
C3_Witness ==
    /\ pc = "returned"
    /\ result.success
    /\ \E i, j \in DOMAIN final_fitness : final_fitness[i] # final_fitness[j]

\* Entry i of the layout carries name, length and width of furniture piece i,
\* and the layout has one entry per piece.
Aligned(layout) ==
    /\ Len(layout) = Len(furniture_list)
    /\ \A i \in DOMAIN layout :
         /\ layout[i].name = furniture_list[i].name
         /\ layout[i].length = furniture_list[i].length
         /\ layout[i].width = furniture_list[i].width

\* C4: at every point of the search, every layout (of the population, of the
\* sorted population, of the next generation under construction, and the one
\* returned) has one entry per furniture piece, index-aligned with the input.
C4_IndexAligned ==
    /\ \A i \in DOMAIN population : Aligned(population[i])
    /\ \A i \in DOMAIN sorted_pop : Aligned(sorted_pop[i])
    /\ \A i \in DOMAIN next_generation : Aligned(next_generation[i])
    /\ \A i \in DOMAIN ga_return : Aligned(ga_return[i])

\* C4, witness: two different pieces, a population large enough for crossover,
\* and a next generation that already holds children besides the elite.
C4_Witness ==
    /\ pc = "repro"
    /\ Len(furniture_list) = 2
    /\ furniture_list[1].name # furniture_list[2].name
    /\ pop_size >= 4
    /\ gen >= 1
    /\ Len(next_generation) = pop_size

\* C5: with an empty furniture list the call reports "No furniture to place",
\* builds no population and runs no generation.
C5_EmptyFurnitureReported ==
    (pc # "call" /\ prepare_furniture_for_layout(selected_furniture) = << >>) =>
        /\ pc = "returned"
        /\ result = [ success |-> FALSE, error |-> "No furniture to place" ]
        /\ population = << >>
        /\ next_generation = << >>
        /\ gen = 0
        /\ ga_return = << >>

\* C5, witness: a call with nothing to place has returned, with generations
\* asked for.
C5_Witness ==
    /\ pc = "returned"
    /\ prepare_furniture_for_layout(selected_furniture) = << >>
    /\ generations > 0
    /\ pop_size > 0
    /\ ~ result.success

\* The inputs the specification calls invalid.
InvalidInput ==
    \/ pop_size <= 0
    \/ room_length <= 0
    \/ room_width <= 0
    \/ \E i \in DOMAIN prepare_furniture_for_layout(selected_furniture) :
         \/ prepare_furniture_for_layout(selected_furniture)[i].length <= 0
         \/ prepare_furniture_for_layout(selected_furniture)[i].width <= 0

\* C6, as claimed: a non-positive popSize, room dimension or furniture
\* dimension is rejected at once: no population, no generation, no layout.
C6_InvalidInputRejected ==
    InvalidInput =>
        /\ population = << >>
        /\ gen = 0
        /\ ga_return = << >>
        /\ (pc = "returned" => ~ result.success)

\* The inputs the specification calls valid.
ValidInput ==
    /\ prepare_furniture_for_layout(selected_furniture) # << >>
    /\ ~ InvalidInput
    /\ generations >= 0

\* C7, as claimed: on valid input no run ends in an error raised from inside
\* the generation loop.
C7_ValidInputNeverRaises ==
    ValidInput => pc # "raised"

-----------------------------------------------------------------------------
(* Properties of the single functions. *)

\* The range the claim states: [0, room - piece], or [0, 0.1] if that is empty.
InClaimedRange(v, room_dim, piece_dim) ==
    IF room_dim - piece_dim < 0
    THEN 0 <= v /\ v <= 1
    ELSE 0 <= v /\ v <= room_dim - piece_dim

\* The range with the floor applied to the difference itself.
InFlooredRange(v, room_dim, piece_dim) ==
    /\ 0 <= v
    /\ v <= (IF room_dim - piece_dim < 1 THEN 1 ELSE room_dim - piece_dim)

\* C8, as claimed: every piece placed by placeRandom has x in
\* [0, room.length - piece.length], or in [0, 0.1] if that range would be
\* empty, likewise y; every rotation is one of 0, 90, 180, 270.
C8_PlacedWithinRoom ==
    fn_out.op = "generate_layout_with_custom_furniture" =>
        \A i \in DOMAIN fn_out.value :
            /\ InClaimedRange(fn_out.value[i].x, fn_args.room_length,
                              fn_args.furniture_list[i].length)
            /\ InClaimedRange(fn_out.value[i].y, fn_args.room_width,
                              fn_args.furniture_list[i].width)
            /\ fn_out.value[i].rotation \in { 0, 90, 180, 270 }

\* C8, amended: x lies in [0, max(0.1, room.length - piece.length)] and y in
\* [0, max(0.1, room.width - piece.width)]: the 0.1 floor applies whenever the
\* difference is below 0.1, also when it is 0 or positive.  Every rotation is
\* one of 0, 90, 180, 270.
C8_PlacedWithinFlooredRange ==
    fn_out.op = "generate_layout_with_custom_furniture" =>
        /\ Len(fn_out.value) = Len(fn_args.furniture_list)
        /\ \A i \in DOMAIN fn_out.value :
            /\ InFlooredRange(fn_out.value[i].x, fn_args.room_length,
                              fn_args.furniture_list[i].length)
            /\ InFlooredRange(fn_out.value[i].y, fn_args.room_width,
                              fn_args.furniture_list[i].width)
            /\ fn_out.value[i].rotation \in { 0, 90, 180, 270 }

\* C8, witness: a piece longer than the room and exactly as wide as the room
\* was placed 0.1 off the wall along y.
C8_Witness ==
    /\ fn_out.op = "generate_layout_with_custom_furniture"
    /\ \E i \in DOMAIN fn_out.value :
         /\ fn_args.furniture_list[i].length > fn_args.room_length
         /\ fn_args.furniture_list[i].width = fn_args.room_width
         /\ fn_out.value[i].y = 1

\* C9: overlaps gives the same answer with its two pieces exchanged.
C9_OverlapSymmetric ==
    fn_out.op = "furniture_overlap" =>
        fn_out.value = furniture_overlap(fn_args.f2, fn_args.f1, fn_args.spacing)

\* C9, witness: two pieces at different places were found to overlap.
C9_Witness ==
    /\ fn_out.op = "furniture_overlap"
    /\ fn_out.value
    /\ fn_args.f1.x > fn_args.f2.x
    /\ fn_args.f1.y # fn_args.f2.y

\* The clearance between two pieces along x and along y (negative when their
\* extents intersect).
GapX(a, b) == Max(b.x - (a.x + a.length), a.x - (b.x + b.length))

GapY(a, b) == Max(b.y - (a.y + a.width), a.y - (b.y + b.width))

SameRect(a, b) ==
    a.x = b.x /\ a.y = b.y /\ a.length = b.length /\ a.width = b.width

\* C10: overlaps is false when the pieces are at least `spacing` apart along
\* x or along y, and true for identical rectangles (positive length and
\* width) at the same position, for every spacing >= 0.
C10_SeparatedOrIdentical ==
    fn_out.op = "furniture_overlap" =>
        LET a == fn_args.f1
            b == fn_args.f2
            s == fn_args.spacing
        IN  /\ (GapX(a, b) >= s \/ GapY(a, b) >= s) => ~ fn_out.value
            /\ (SameRect(a, b) /\ a.length > 0 /\ a.width > 0 /\ s >= 0)
                   => fn_out.value

\* C10, witness: two pieces exactly `spacing` apart along x, intersecting
\* along y, were found not to overlap.
C10_Witness ==
    /\ fn_out.op = "furniture_overlap"
    /\ fn_args.spacing > 0
    /\ GapX(fn_args.f1, fn_args.f2) = fn_args.spacing
    /\ GapY(fn_args.f1, fn_args.f2) < 0
    /\ ~ fn_out.value

-----------------------------------------------------------------------------
(* Monotonicity of evaluate_layout. *)

OverlappingPairs(layout) ==
    { p \in (1..Len(layout)) \X (1..Len(layout)) :
        p[1] < p[2] /\ furniture_overlap(layout[p[1]], layout[p[2]], DefaultSpacing) }

OutOfBoundsPieces(layout, room_dims) ==
    { i \in 1..Len(layout) : OutOfBounds(layout[i], room_dims.length, room_dims.width) }

WallBonus(layout, room_dims) ==
    SumSeq([ i \in 1..Len(layout) |->
               WallBonusOf(layout[i], room_dims.length, room_dims.width) ])

\* L' is L with exactly one overlapping pair separated, no new overlap and no
\* new out-of-bounds piece.
OnePairSeparated(L, Lp, room_dims) ==
    /\ OverlappingPairs(Lp) \subseteq OverlappingPairs(L)
    /\ Cardinality(OverlappingPairs(L) \ OverlappingPairs(Lp)) = 1
    /\ OutOfBoundsPieces(Lp, room_dims) \subseteq OutOfBoundsPieces(L, room_dims)

MovedLayout == Moved(fn_args.layout, fn_args.index, fn_args.x, fn_args.y)

\* C12, as claimed: separating one overlapping pair without a new overlap or
\* out-of-bounds violation raises the score by exactly 30.
C12_SeparationAdds30 ==
    (fn_out.op = "evaluate_layout twice"
        /\ OnePairSeparated(fn_args.layout, MovedLayout, fn_args.room_dims))
    => fn_out.after = fn_out.before + 30

\* C12, amended: the score rises by exactly 30 when, besides, the move leaves
\* the set of out-of-bounds pieces, the wall bonus and the centre bonus as they
\* were and the score of L before the final max(0, .) is not negative.
C12_SeparationAdds30AllElseEqual ==
    (fn_out.op = "evaluate_layout twice"
        /\ OnePairSeparated(fn_args.layout, MovedLayout, fn_args.room_dims)
        /\ OutOfBoundsPieces(MovedLayout, fn_args.room_dims)
               = OutOfBoundsPieces(fn_args.layout, fn_args.room_dims)
        /\ WallBonus(MovedLayout, fn_args.room_dims)
               = WallBonus(fn_args.layout, fn_args.room_dims)
        /\ CentreBonus(MovedLayout, fn_args.room_dims.length, fn_args.room_dims.width)
               = CentreBonus(fn_args.layout, fn_args.room_dims.length,
                             fn_args.room_dims.width)
        /\ RawScore(fn_args.layout, fn_args.room_dims) >= 0)
    => fn_out.after = fn_out.before + 30

\* C12, witness: a pair was separated with everything else equal, and the
\* score went from a positive value to that value plus 30.
C12_Witness ==
    /\ fn_out.op = "evaluate_layout twice"
    /\ OnePairSeparated(fn_args.layout, MovedLayout, fn_args.room_dims)
    /\ OutOfBoundsPieces(MovedLayout, fn_args.room_dims)
           = OutOfBoundsPieces(fn_args.layout, fn_args.room_dims)
    /\ WallBonus(MovedLayout, fn_args.room_dims)
           = WallBonus(fn_args.layout, fn_args.room_dims)
    /\ CentreBonus(MovedLayout, fn_args.room_dims.length, fn_args.room_dims.width)
           = CentreBonus(fn_args.layout, fn_args.room_dims.length,
                         fn_args.room_dims.width)
    /\ fn_out.before > 0
    /\ fn_out.after = fn_out.before + 30

-----------------------------------------------------------------------------
(* Properties of crossover_layouts and mutate_layout. *)

\* C13: the child of a crossover has the length of its parents and, at every
\* position, the entry of one of the parents at that position; crossing a
\* layout with itself gives that layout.
C13_CrossoverIndexAligned ==
    fn_out.op = "crossover_layouts" =>
        /\ Len(fn_out.value) = Len(fn_args.parent1)
        /\ \A i \in DOMAIN fn_out.value :
             fn_out.value[i] \in { fn_args.parent1[i], fn_args.parent2[i] }
        /\ fn_args.parent1 = fn_args.parent2 => fn_out.value = fn_args.parent1

\* C13, witness: a child that took entries from both of two different parents.
C13_Witness ==
    /\ fn_out.op = "crossover_layouts"
    /\ Len(fn_out.value) >= 2
    /\ fn_out.value # fn_args.parent1
    /\ fn_out.value # fn_args.parent2

\* A position outside [0, max(0.1, room - piece)].
OutsideClamp(v, room_dim, piece_dim) ==
    v < 0 \/ v > (IF room_dim - piece_dim < 1 THEN 1 ELSE room_dim - piece_dim)

\* C14: with mutation rate 0.0 the layout returned equals the input, also
\* when positions of the input lie outside the clamp range.
C14_ZeroRateIsIdentity ==
    (fn_out.op = "mutate_layout" /\ fn_args.mutation_rate = 0)
        => fn_out.value = fn_args.layout

\* C14, witness: a layout with a piece outside the clamp range went through
\* mutation at rate 0.0.
C14_Witness ==
    /\ fn_out.op = "mutate_layout"
    /\ fn_args.mutation_rate = 0
    /\ \E i \in DOMAIN fn_args.layout :
         OutsideClamp(fn_args.layout[i].x, fn_args.room_length, fn_args.layout[i].length)
    /\ fn_out.value = fn_args.layout

-----------------------------------------------------------------------------
(* The end-to-end scenarios. *)

Ended == pc \in { "returned", "raised" }

BedAndChairScenario ==
    /\ selected_furniture = << Wrapped("beds", Bed), Direct("chairs", Chair) >>
    /\ room_length = 120 /\ room_width = 100
    /\ pop_size = 20 /\ generations = 20

SofaScenario ==
    /\ selected_furniture = << Direct("sofas", Sofa) >>
    /\ room_length = 30 /\ room_width = 30
    /\ pop_size = 50 /\ generations = 50

\* C16: with a sofa of 8.0 x 3.0 in a room of 3.0 x 3.0 the run raises no
\* error; the returned layout places the sofa at x in [0, 0.1], the sofa is out
\* of bounds, and the score carries exactly one out-of-bounds penalty of 25.
C16_OversizedPiecePlaced ==
    SofaScenario =>
        /\ pc # "raised"
        /\ pc = "returned" =>
             /\ result.success
             /\ Len(result.layout) = 1
             /\ result.layout[1].x \in 0..1
             /\ OutOfBounds(result.layout[1], room_length, room_width)
             /\ Cardinality(OutOfBoundsPieces(result.layout, RoomDims)) = 1
             /\ evaluate_layout(result.layout, RoomDims)
                    = 100 - 25 + WallBonus(result.layout, RoomDims)
                               + CentreBonus(result.layout, room_length, room_width)

\* C16, witness: the sofa scenario returned after all its generations, the
\* sofa 8.0 long in the room 3.0 long.
C16_Witness ==
    /\ SofaScenario
    /\ pc = "returned" /\ result.success
    /\ gen = 50
    /\ result.layout[1].length = 80
    /\ result.layout[1].x \in 0..1

-----------------------------------------------------------------------------
(* The generation loop. *)

\* C17, as claimed: on valid input a run ends only by returning, after exactly
\* `generations` generation steps (none when generations = 0, the best of the
\* initial population being returned).
C17_ExactlyGenerationsSteps ==
    (ValidInput /\ Ended) =>
        /\ pc = "returned"
        /\ gen = generations
        /\ Len(population) = pop_size
        /\ generations = 0 =>
             \A i \in DOMAIN population :
                 evaluate_layout(result.layout, RoomDims)
                     >= evaluate_layout(population[i], RoomDims)


\* C18: the population has exactly pop_size layouts at the start of the search
\* and at the end of every generation step, for every pop_size >= 1.
C18_PopulationSizeFixed ==
    (pc = "loop" /\ pop_size >= 1) => Len(population) = pop_size

\* C18, witness: a generation step has ended with a pop_size between 2 and 4,
\* where the elite is one layout and the loop filled in the others.
C18_Witness ==
    /\ pc = "loop"
    /\ gen >= 1
    /\ pop_size \in 2..4
    /\ elite_count(pop_size) = 1
    /\ Len(population) = pop_size


ScoreOf(layout) == evaluate_layout(layout, RoomDims)

\* The first k layouts of ng are k highest-scoring layouts of pop, in
\* descending score order, each unchanged and none taken more often than pop
\* holds it.
TopOf(ng, pop, k) ==
    /\ Len(ng) >= k
    /\ \A i \in 1..k :
         /\ \E j \in DOMAIN pop : pop[j] = ng[i]
         /\ Cardinality({ j \in 1..k : ng[j] = ng[i] })
                <= Cardinality({ j \in DOMAIN pop : pop[j] = ng[i] })
         /\ Cardinality({ j \in DOMAIN pop : ScoreOf(pop[j]) > ScoreOf(ng[i]) }) < i
         /\ i < k => ScoreOf(ng[i]) >= ScoreOf(ng[i + 1])

\* C19: in every generation step the first max(1, pop_size // 5) layouts of
\* the next population are that many highest-scoring layouts of the current
\* population, in descending score order and unchanged (established when the
\* elite is chosen, and the elite stays the first layouts of sorted_pop while
\* the others are added); they are still the first layouts of the population
\* when the step has ended.
C19_ElitesCarriedOver ==
    pop_size >= 1 =>
        /\ pc = "repro" =>
             /\ Len(next_generation) >= Max(1, pop_size \div 5)
             /\ Take(next_generation, Max(1, pop_size \div 5))
                    = Take(sorted_pop, Max(1, pop_size \div 5))
             /\ Len(next_generation) = Max(1, pop_size \div 5) =>
                    TopOf(next_generation, population, Max(1, pop_size \div 5))
        /\ (pc = "loop" /\ gen >= 1) =>
             Take(population, Max(1, pop_size \div 5))
                 = Take(sorted_pop, Max(1, pop_size \div 5))

\* C19, witness: a next population of 20 is complete; its four elites do not
\* all score the same and are not the first four of the current population.
C19_Witness ==
    /\ pc = "repro"
    /\ pop_size = 20
    /\ Len(next_generation) = pop_size
    /\ ScoreOf(next_generation[1]) > ScoreOf(next_generation[4])
    /\ Take(next_generation, 4) # Take(population, 4)
    /\ TopOf(next_generation, population, 4)

-----------------------------------------------------------------------------
(* Object identity: what the search writes to. *)

\* C20: no step of the search (evaluating, keeping an elite, crossing parents,
\* mutating a child, replacing the population) changes the x, y, rotation,
\* length or width of a furniture dictionary that exists already; every layout
\* of the current population is equal before and after the step.
C20_NoWriteToExistingPieces ==
    [][ /\ \A id \in DOMAIN heap :
             /\ id \in DOMAIN heap'
             /\ heap'[id].x = heap[id].x
             /\ heap'[id].y = heap[id].y
             /\ heap'[id].rotation = heap[id].rotation
             /\ heap'[id].length = heap[id].length
             /\ heap'[id].width = heap[id].width
        /\ \A i \in DOMAIN refs.population :
             Deref(heap', refs.population[i]) = Deref(heap, refs.population[i])
      ]_vars

\* C20, witness: a child was produced from the parent pool and mutated: it is
\* made of dictionaries no layout of the current population refers to, it
\* differs from every layout of the current population, and the elite of the
\* next generation is the very layout that heads the current one.
C20_Witness ==
    /\ pc = "ref_repro"
    /\ gen >= 1
    /\ Len(refs.next_generation) = pop_size
    /\ refs.next_generation[1] = refs.sorted_pop[1]
    /\ \E c \in 2..pop_size :
         /\ \A i \in DOMAIN refs.sorted_pop :
              /\ Deref(heap, refs.next_generation[c]) # Deref(heap, refs.sorted_pop[i])
              /\ \A k \in DOMAIN refs.next_generation[c] :
                   \A m \in DOMAIN refs.sorted_pop[i] :
                       refs.next_generation[c][k] # refs.sorted_pop[i][m]
         /\ \E i \in 1..2 : \E k \in DOMAIN refs.next_generation[c] :
              heap[refs.next_generation[c][k]].rotation
                  = heap[refs.sorted_pop[i][k]].rotation


\* C21, as claimed: a child made by crossover shares no mutable object with a
\* layout of the parent pool: none of its furniture dictionaries is a
\* parent's dictionary, and the catalogue item attached to a piece (db_item,
\* a reference) is not the object attached to the parent's piece.
C21_ChildSharesNothing ==
    (pc = "ref_mutate" /\ refs.child # << >>) =>
        \A i \in DOMAIN parent_pool(refs.sorted_pop, pop_size) :
            \A k \in DOMAIN refs.child :
                LET parent == parent_pool(refs.sorted_pop, pop_size)[i]
                IN  /\ refs.child[k] # parent[k]
                    /\ heap[refs.child[k]].db_item # heap[parent[k]].db_item

-----------------------------------------------------------------------------
(* What mutate_layout changes, and the range of positions. *)

\* Whether the k-th piece of a mutate_layout call was selected: the draw of
\* line 229, made after the draws for the pieces before it.
SelectedForMutation(call, k) ==
    random_below(RngNext(MutateUpTo(call.layout, call.room_length, call.room_width,
                                    call.mutation_rate, call.rng, k - 1).rng),
                 call.mutation_rate)

\* C22: for every mutation rate and every sequence of draws, mutate leaves
\* the rotation, name, length and width of every piece unchanged, and x and y
\* of every piece that was not selected.
C22_MutateChangesOnlySelectedPositions ==
    fn_out.op = "mutate_layout" =>
        /\ Len(fn_out.value) = Len(fn_args.layout)
        /\ \A k \in DOMAIN fn_args.layout :
             /\ fn_out.value[k].rotation = fn_args.layout[k].rotation
             /\ fn_out.value[k].name = fn_args.layout[k].name
             /\ fn_out.value[k].length = fn_args.layout[k].length
             /\ fn_out.value[k].width = fn_args.layout[k].width
             /\ ~ SelectedForMutation(fn_args, k) =>
                    /\ fn_out.value[k].x = fn_args.layout[k].x
                    /\ fn_out.value[k].y = fn_args.layout[k].y

\* C22, witness: one piece of a layout was selected and moved, another one,
\* outside the clamp range, was not selected and kept its position.
C22_Witness ==
    /\ fn_out.op = "mutate_layout"
    /\ fn_args.mutation_rate = 3
    /\ \E k \in DOMAIN fn_args.layout :
         /\ SelectedForMutation(fn_args, k)
         /\ fn_out.value[k].x # fn_args.layout[k].x
         /\ fn_out.value[k].length = fn_args.layout[k].length
    /\ \E k \in DOMAIN fn_args.layout :
         /\ ~ SelectedForMutation(fn_args, k)
         /\ OutsideClamp(fn_args.layout[k].x, fn_args.room_length, fn_args.layout[k].length)
         /\ fn_out.value[k].x = fn_args.layout[k].x

\* Every piece of the layout has x in [0, max(0.1, room.length - piece.length)]
\* and y in [0, max(0.1, room.width - piece.width)].
PositionsInRange(layout, rl, rw) ==
    \A k \in DOMAIN layout :
        /\ InFlooredRange(layout[k].x, rl, layout[k].length)
        /\ InFlooredRange(layout[k].y, rw, layout[k].width)

\* C23: every piece selected by mutate ends with x and y in those ranges,
\* wherever it was before; and every piece of every layout of every
\* population of the search, and of the returned layout, is in those ranges.
C23_PositionsInRange ==
    /\ fn_out.op = "mutate_layout" =>
         \A k \in DOMAIN fn_args.layout :
             SelectedForMutation(fn_args, k) =>
                 /\ InFlooredRange(fn_out.value[k].x, fn_args.room_length,
                                   fn_args.layout[k].length)
                 /\ InFlooredRange(fn_out.value[k].y, fn_args.room_width,
                                   fn_args.layout[k].width)
    /\ \A i \in DOMAIN population :
         PositionsInRange(population[i], room_length, room_width)
    /\ \A i \in DOMAIN next_generation :
         PositionsInRange(next_generation[i], room_length, room_width)
    /\ \A i \in DOMAIN ga_return :
         PositionsInRange(ga_return[i], room_length, room_width)
    /\ (pc = "returned" /\ result.success) =>
         PositionsInRange(result.layout, room_length, room_width)

\* C23, witness (mutate): a selected piece that was outside its range is
\* inside it afterwards.
C23_Witness ==
    /\ fn_out.op = "mutate_layout"
    /\ \E k \in DOMAIN fn_args.layout :
         /\ SelectedForMutation(fn_args, k)
         /\ OutsideClamp(fn_args.layout[k].x, fn_args.room_length, fn_args.layout[k].length)
         /\ InFlooredRange(fn_out.value[k].x, fn_args.room_length, fn_args.layout[k].length)

-----------------------------------------------------------------------------
(* The score, term by term. *)

\* P: the unordered pairs of pieces closer than 0.5 along both axes.
ClaimedPairs(layout) ==
    { pr \in SUBSET (1..Len(layout)) :
        /\ Cardinality(pr) = 2
        /\ \A a \in pr : \A b \in pr \ { a } :
             GapX(layout[a], layout[b]) < 5 /\ GapY(layout[a], layout[b]) < 5 }

\* O: the pieces not contained in the room, each counted once.
ClaimedOutside(layout, room_dims) ==
    { i \in 1..Len(layout) :
        ~ ( /\ 0 <= layout[i].x
            /\ 0 <= layout[i].y
            /\ layout[i].x + layout[i].length <= room_dims.length
            /\ layout[i].y + layout[i].width <= room_dims.width ) }

\* Wx, Wy: the pieces wall-adjacent along x, along y.
ClaimedWallX(layout, room_dims) ==
    { i \in 1..Len(layout) :
        layout[i].x <= 5 \/ layout[i].x + layout[i].length >= room_dims.length - 5 }

ClaimedWallY(layout, room_dims) ==
    { i \in 1..Len(layout) :
        layout[i].y <= 5 \/ layout[i].y + layout[i].width >= room_dims.width - 5 }

\* B: 10 when the mean distance of the piece centres to the room centre is
\* strictly between 0.2 and 0.4 of the room length.  The distances are doubled
\* and in hundredths, so their sum is compared with 4 n and 8 n room lengths.
ClaimedBalance(layout, room_dims) ==
    LET n == Len(layout)
        d == [ i \in 1..n |->
                 Sqrt10(  (2 * layout[i].x + layout[i].length - room_dims.length)
                        * (2 * layout[i].x + layout[i].length - room_dims.length)
                        + (2 * layout[i].y + layout[i].width - room_dims.width)
                        * (2 * layout[i].y + layout[i].width - room_dims.width)) ]
    IN  IF n = 0 THEN 0
        ELSE IF SumSeq(d) > 4 * n * room_dims.length
                /\ SumSeq(d) < 8 * n * room_dims.length THEN 10 ELSE 0

WithinHalfUnit(v, wall) == wall - 5 <= v /\ v <= wall + 5

\* C25, as claimed: a piece earns the x bonus exactly when its left side is
\* within 0.5 of x = 0 or its right side within 0.5 of x = room.length, and
\* the y bonus likewise; a side more than 0.5 beyond a wall earns nothing for
\* that wall.  The score is then the one of C24 with these pieces counted.
C25_BonusOnlyWithinHalfUnit ==
    fn_out.op = "evaluate_layout" =>
        LET layout == fn_args.layout
            room   == fn_args.room_dims
            nearX  == { i \in 1..Len(layout) :
                          \/ WithinHalfUnit(layout[i].x, 0)
                          \/ WithinHalfUnit(layout[i].x + layout[i].length, room.length) }
            nearY  == { i \in 1..Len(layout) :
                          \/ WithinHalfUnit(layout[i].y, 0)
                          \/ WithinHalfUnit(layout[i].y + layout[i].width, room.width) }
        IN  fn_out.value =
                Max(0, 100 - 30 * Cardinality(ClaimedPairs(layout))
                           - 25 * Cardinality(ClaimedOutside(layout, room))
                           + 5 * Cardinality(nearX) + 5 * Cardinality(nearY)
                           + ClaimedBalance(layout, room))

-----------------------------------------------------------------------------
(* Rotation. *)

\* C26: two layouts that differ only in the rotation values of their pieces
\* get the same overlap result for every pair and the same score; crossover
\* and mutate hand on length and width as they are, never swapped.
C26_RotationIgnored ==
    /\ fn_out.op = "evaluate_layout rotated" =>
         /\ fn_out.after = fn_out.before
         /\ fn_out.overlaps_after = fn_out.overlaps_before
    /\ fn_out.op = "crossover_layouts" =>
         \A i \in DOMAIN fn_out.value :
             \E p \in { fn_args.parent1[i], fn_args.parent2[i] } :
                 /\ fn_out.value[i].length = p.length
                 /\ fn_out.value[i].width = p.width
                 /\ fn_out.value[i].rotation = p.rotation
    /\ fn_out.op = "mutate_layout" =>
         \A i \in DOMAIN fn_out.value :
             /\ fn_out.value[i].length = fn_args.layout[i].length
             /\ fn_out.value[i].width = fn_args.layout[i].width

\* C26, witness: a piece of 2.0 x 1.0 that sticks out of the room along x, and
\* would fit if turned, was scored unturned and turned by 90 degrees.
C26_Witness ==
    /\ fn_out.op = "evaluate_layout rotated"
    /\ \E i \in DOMAIN fn_args.layout :
         /\ fn_args.rotations[i] = 90
         /\ fn_args.layout[i].rotation = 0
         /\ fn_args.layout[i].x + fn_args.layout[i].length > fn_args.room_dims.length
         /\ fn_args.layout[i].x + fn_args.layout[i].width <= fn_args.room_dims.length
         /\ fn_args.layout[i].y + fn_args.layout[i].length <= fn_args.room_dims.width
    /\ fn_out.after = fn_out.before

-----------------------------------------------------------------------------
(* The best score over the generations. *)

BestScore(pop) == MaxOfSeq(fitness_of(pop, room_length, room_width))

\* C27: when a generation step has ended, the best score of the new
\* population is at least the best score of the population the step started
\* from (still held, sorted, in sorted_pop); so the returned layout scores at
\* least as much as the best layout of the population before the last step,
\* which after one generation is the initial random population.
C27_BestScoreNeverDecreases ==
    (pop_size >= 1 /\ gen >= 1) =>
        /\ pc = "loop" => BestScore(population) >= BestScore(sorted_pop)
        /\ Returned =>
             evaluate_layout(ga_return[1], RoomDims) >= BestScore(sorted_pop)

\* C27, witness: a generation step has ended with a best score strictly
\* higher than the best score it started from.
C27_Witness ==
    /\ pc = "loop"
    /\ pop_size >= 4
    /\ gen >= 1
    /\ BestScore(population) > BestScore(sorted_pop)

-----------------------------------------------------------------------------
(* The retry loop of get_ai_placement_instructions. *)

\* The answer is a non-empty JSON object, with or without markdown fences.
GoodAnswer(outcome) ==
    outcome.kind = "text" /\ outcome.body = ObjectText

\* C28: at most max_retries requests are sent; the parsed result of the first
\* good answer is returned and no request follows it; None is returned exactly
\* when every one of the max_retries attempts failed (or max_retries is 0); no
\* exception leaves the function; and it has waited once after every failed
\* attempt but the last of the max_retries.
C28_RetryLoop ==
    ai.pc # "idle" =>
        /\ ai.requests <= ai.max_retries
        /\ ai.pc # "raised"
        /\ \A k \in 1..(Len(ai.log) - 1) : ~ GoodAnswer(ai.log[k])
        /\ ai.pc = "returned" =>
             /\ ai.requests = Len(ai.log)
             /\ ai.value # None <=>
                  (ai.log # << >> /\ GoodAnswer(ai.log[Len(ai.log)]))
             /\ ai.value # None => ai.value = [ type |-> "dict", len |-> 1 ]
             /\ ai.value = None <=>
                  /\ Len(ai.log) = ai.max_retries
                  /\ \A k \in 1..Len(ai.log) : ~ GoodAnswer(ai.log[k])
             /\ ai.sleeps = Cardinality({ k \in 1..Len(ai.log) :
                                            ~ GoodAnswer(ai.log[k]) /\ k < ai.max_retries })

\* C28, witness: with max_retries 3, two attempts failed in different ways,
\* each followed by a wait, and the third answer was returned.
C28_Witness ==
    /\ ai.pc = "returned"
    /\ ai.max_retries = 3
    /\ Len(ai.log) = 3
    /\ ai.log[1] = NoResponse
    /\ ai.log[2] = Answer("none", "{}")
    /\ ai.log[3] = Answer("json", ObjectText)
    /\ ai.sleeps = 2
    /\ ai.value = [ type |-> "dict", len |-> 1 ]

-----------------------------------------------------------------------------
(* process_uploaded_room. *)

\* C29, as claimed: a result with success = True has a dimensions record with
\* numeric length and width, a clean_path, no error, and an iteration count
\* between 1 and max_iterations, whatever the dimension model answered.
C29_SuccessfulResultComplete ==
    (rp.pc = "returned" /\ rp.result.success) =>
        /\ rp.result.dimensions.type = "dict"
        /\ rp.result.dimensions.length \in Nat
        /\ rp.result.dimensions.width \in Nat
        /\ rp.result.clean_path # "None"
        /\ rp.result.error = "None"
        /\ 1 <= rp.result.iterations
        /\ rp.result.iterations <= rp.max_iterations


-----------------------------------------------------------------------------
(* The wizard. *)

\* The layout was generated but came without placement instructions: Step 10
\* shows "No placement instructions available. Please regenerate the layout."
NoInstructions ==
    /\ session.layout_generated
    /\ truthy(session.layout_data)
    /\ session.layout_data.placement_instructions = "None"

\* C30, as claimed: from every session with a generated layout and no
\* placement instructions, some sequence of clicks leads to a session in which
\* "Generate Optimal Layout" is offered.
C30_RegenerateReachable ==
    NoInstructions =>
        \E s \in sessions_after({ session }, { session }) : generate_offered(s)

====
